---------------------------- MODULE Spec2Model ----------------------------
(***************************************************************************)
(* A model of policy-pilot's resilience layer (src/utils/resilience.py),   *)
(* result cache (src/services/cache_service.py), rate limiter              *)
(* (src/api/rate_limiter.py), text chunker (src/utils/text_processing.py)  *)
(* and embedding of chunks (src/services/embedding_service.py,             *)
(* src/services/document_processor.py).                                    *)
(*                                                                         *)
(* Time is the wall clock read by time.time(), counted in whole ticks.     *)
(* Callers are threads; a thread is at "idle" between two operations and   *)
(* at a *_func position while the wrapped function runs (no lock is held   *)
(* there).                                                                 *)
(***************************************************************************)
EXTENDS Integers, Sequences, FiniteSets, TLC

\* ---- bounds of the model ------------------------------------------------
NThreads == 2          \* caller threads
MaxCalls == 6          \* operations started in one run
MaxTime  == 9          \* last tick of the wall clock
MaxOps   == 3          \* cache operations started in one run
MaxLruOps == 4         \* cache operations started in one run that watches the eviction order
MaxCacheTime == 4      \* last tick of the wall clock in the runs of the cache
MaxRequests == 5       \* requests and limiter calls made in one run
MaxMiddlewareRequests == 3  \* requests the server receives in one run
MaxLimiterTime == 5    \* last tick of the wall clock in the runs of the rate limiter
MaxTextLen == 12       \* characters of a document's combined content
MaxSmallChunk == 3     \* the small chunk sizes: 1..MaxSmallChunk
BreakChunkSize == 11   \* the chunk size at which a sentence boundary can shorten a chunk
MaxSizeArg == 5        \* largest chunk_size or chunk_overlap handed to the constructor
MaxIngestLen == 4      \* characters of a document that is chunked and embedded
MaxLoaderCalls == 4    \* calls of the embedding service started in one run
MaxIndexCalls == 3     \* calls of ensure_index_exists and index_documents started in one run
MaxSearches == 3       \* hybrid_search calls made in one run
MaxSearchTime == 5     \* last tick of the wall clock in the runs of the search
MaxQueries == 3        \* query_documents calls made in one run
MaxPressureLen == 8    \* entries of a cache at the start of a run that watches memory pressure
MaxPressureSets == 2   \* set calls made in such a run
MaxLimiterCalls == 4   \* is_allowed calls made on a RateLimiter of its own in one run
MaxRaceOps == 2        \* get_or_set calls started in a run in which they overlap
MaxDeleteCalls == 4    \* index_documents and delete_document calls made in a run that deletes

\* ---- configuration (CircuitBreakerConfig, RetryConfig) -------------------
FailureThreshold == 3  \* failure_threshold
RecoveryTimeout  == 2  \* recovery_timeout, in ticks
SuccessThreshold == 2  \* success_threshold
MaxAttempts      == 3  \* max_attempts
BaseDelay        == 2  \* base_delay, in ticks
MaxDelay         == 3  \* max_delay, in ticks
ExponentialBase  == 2  \* exponential_base
Jitter           == TRUE  \* jitter

\* ---- configuration (CacheService) ----------------------------------------
MaxSize         == 2   \* max_size
DefaultTtl      == 2   \* default_ttl, in ticks
MemoryThreshold == 80  \* _memory_threshold, in percent

Keys    == {"a", "b", "c"}
None    == "None"                  \* Python's None: a value like any other
Values  == {None, "v1"}
NoTtl   == <<>>                    \* ttl=None
TtlArgs == {NoTtl, <<1>>}          \* the ttl argument (Optional[int]), in ticks
MemorySamples == {80, 81}          \* psutil.virtual_memory().percent

\* ---- configuration (SearchService.hybrid_search) ---------------------------
SearchTtl == 2         \* ttl=300, in ticks of 150 seconds
HashRange == 4         \* the values hash() takes: 2^64 in CPython, fewer here
GptTtl == 24           \* ttl=3600, in ticks of 150 seconds

Threads == 1..NThreads

Min(a, b) == IF a < b THEN a ELSE b

RECURSIVE Pow(_, _)
Pow(b, e) == IF e = 0 THEN 1 ELSE b * Pow(b, e - 1)

VARIABLES
    now,                \* time.time()
    state,              \* CircuitBreaker.state
    failure_count,      \* CircuitBreaker.failure_count
    success_count,      \* CircuitBreaker.success_count
    last_failure_time,  \* CircuitBreaker.last_failure_time
    pc,                 \* per thread: position in its operation
    op,                 \* per thread: operation running or last run
    attempt,            \* per thread: RetryHandler.retry's loop variable
    inv,                \* per thread: invocations of func by the operation
    outcomes,           \* per thread: how each of these invocations ended (TRUE: it returned)
    slept,              \* per thread: time.sleep calls made by the operation
    wakeAt,             \* per thread: tick at which its time.sleep returns
    result,             \* per thread: outcome of its last finished operation
    ncalls,             \* operations started so far
    streak,             \* history: failures the breaker saw since the last success it saw
    probeSuccesses,     \* history: successes seen since the breaker last entered half_open
    entered,            \* history: per thread, the breaker as its operation found it
    cache,              \* CacheService._cache: the entries, least recently used first
    gpc,                \* per thread: position in get_or_set
    gkey,               \* per thread: get_or_set's key
    gttl,               \* per thread: get_or_set's ttl
    nops,               \* cache operations started so far
    last,               \* history: the cache operation that returned last, and what it returned
    recency,            \* history: the keys used so far, least recently used first
    inserted,           \* history: the keys inserted so far, in the order of their last insertion
    usedBy,             \* history: per key, the kind of its latest use
    pressed,            \* history: some set evicted for memory pressure
    limiters,           \* AdvancedRateLimiter.limiters: the endpoint types that have a RateLimiter
    buckets,            \* per endpoint type: RateLimiter.buckets, per client
    nreqs,              \* requests and limiter calls made so far
    lreq,               \* history: the request or limiter call that returned last
    seen,               \* history: per endpoint type and client, the calls since its bucket was created
    settings,           \* src.config.settings: chunk_size and chunk_overlap
    chunker,            \* the TextChunker: what its constructor was given and what it keeps
    chunked,            \* the chunk_document call that ended last: its text and its chunks
    embedded,           \* the _generate_embeddings call that ended last: the chunks with their vectors
    loader,             \* EmbeddingService: model, _model_lock and the threads that call it
    store,              \* the OpenSearch index and the threads that call SearchService
    searched,           \* the hybrid_search call that ended last, and what the calls stored
    answered,           \* the query_documents call that ended last: its steps and its response
    sampled,            \* history: what psutil read at the check of the set that ended last
    rate_limiter,       \* a RateLimiter of its own: its configuration, buckets and grants
    deleted,            \* history: the documents delete_document removed, not indexed since
    processed_doc       \* the process_document call that ended last: what it returned or raised

breakerVars == <<state, failure_count, success_count, last_failure_time>>
threadVars  == <<pc, op, attempt, inv, outcomes, slept, wakeAt, result>>
historyVars == <<streak, probeSuccesses, entered>>
resilVars   == <<breakerVars, threadVars, historyVars, ncalls>>
gosVars     == <<gpc, gkey, gttl>>
lruHistory  == <<recency, inserted, usedBy, pressed>>
cacheVars   == <<cache, gosVars, nops, last, lruHistory>>
limiterVars == <<limiters, buckets, nreqs, lreq, seen>>
chunkerVars == <<settings, chunker, chunked, embedded>>
asideVars   == <<sampled, rate_limiter, deleted>>
serviceVars == <<loader, store, searched, answered, asideVars, processed_doc>>
otherVars   == <<limiterVars, chunkerVars, serviceVars>>
vars        == <<now, resilVars, cacheVars, otherVars>>

NoResult == [kind |-> "none", id |-> 0]
NoEntry == [state |-> "none", failure_count |-> 0]

\* CircuitBreaker.__init__
InitBreaker ==
    /\ state = "closed"
    /\ failure_count = 0
    /\ success_count = 0
    /\ last_failure_time = 0

InitThreads ==
    /\ pc = [t \in Threads |-> "idle"]
    /\ op = [t \in Threads |-> "none"]
    /\ attempt = [t \in Threads |-> 0]
    /\ inv = [t \in Threads |-> 0]
    /\ outcomes = [t \in Threads |-> <<>>]
    /\ slept = [t \in Threads |-> 0]
    /\ wakeAt = [t \in Threads |-> 0]
    /\ result = [t \in Threads |-> NoResult]
    /\ ncalls = 0
    /\ streak = 0
    /\ probeSuccesses = 0
    /\ entered = [t \in Threads |-> NoEntry]

\* The call that returned last: its value and ttl arguments, the return
\* statement it took (path), what it returned (ret: the value, None for a miss,
\* "True", "False", or "raised" for an exception) and how often it invoked
\* factory (calls).
Returned(o, k, v, ttl, pth, r, c) ==
    [op |-> o, key |-> k, val |-> v, ttl |-> ttl, path |-> pth, ret |-> r, calls |-> c]

NoOp == Returned("none", None, None, NoTtl, "-", None, 0)

\* CacheService.__init__
InitCache ==
    /\ cache = <<>>
    /\ gpc = [t \in Threads |-> "idle"]
    /\ gkey = [t \in Threads |-> None]
    /\ gttl = [t \in Threads |-> NoTtl]
    /\ nops = 0
    /\ last = NoOp
    /\ recency = <<>>
    /\ inserted = <<>>
    /\ usedBy = [k \in Keys |-> "none"]
    /\ pressed = FALSE

\* ---- rate limiter (src/api/rate_limiter.py) --------------------------------
\* One tick of the clock is one second.  Tokens are floats in the code; here
\* they are counted in sixtieths of a token, so that "time_passed *
\* requests_per_minute / 60.0" is exact for whole seconds.
TokenScale == 60

\* AdvancedRateLimiter.endpoint_limits, two of its five classes
UploadRequestsPerMinute  == 30
UploadBurstSize          == 3
DefaultRequestsPerMinute == 60
DefaultBurstSize         == 2
EndpointTypes == {"upload", "default"}
EndpointLimits ==
    [e \in EndpointTypes |->
        IF e = "upload"
        THEN [requests_per_minute |-> UploadRequestsPerMinute, burst_size |-> UploadBurstSize]
        ELSE [requests_per_minute |-> DefaultRequestsPerMinute, burst_size |-> DefaultBurstSize]]

\* request.url.path, as its segments
Paths == {<<"api", "upload">>, <<"api", "documents">>}

\* RateLimiter.get_client_id: the md5 of "ip:user-agent"
Clients == {"c1", "c2"}

\* cleanup_old_buckets(max_age), in seconds
MaxAge == 1

NoBucket == [tokens |-> -1, last_refill |-> -1]   \* client_id not in self.buckets
NoSeen   == [born |-> -1, calls |-> 0, latest |-> -1, prev |-> -1]
NoRequest ==
    [op |-> "none", type |-> "none", client |-> "none", allowed |-> FALSE,
     path |-> "-", status |-> 0, handled |-> 0]

\* AdvancedRateLimiter.__init__: no limiter yet, hence no bucket
InitLimiter ==
    /\ limiters = {}
    /\ buckets = [e \in EndpointTypes |-> [c \in Clients |-> NoBucket]]
    /\ nreqs = 0
    /\ lreq = NoRequest
    /\ seen = [e \in EndpointTypes |-> [c \in Clients |-> NoSeen]]

\* no RateLimiter of its own has been constructed
NoRateLimiter ==
    [status |-> "none", requests_per_minute |-> 0, burst_size |-> 0,
     buckets |-> [c \in Clients |-> NoBucket], granted |-> [c \in Clients |-> <<>>],
     ncalls |-> 0]

\* ---- configuration (Settings, TextChunker) --------------------------------
DefaultChunkSize    == 10  \* settings.chunk_size
DefaultChunkOverlap == 2   \* settings.chunk_overlap

DefaultSettings == [chunk_size |-> DefaultChunkSize, chunk_overlap |-> DefaultChunkOverlap]

\* An Optional[int] argument: <<>> is None, <<n>> is the integer n.
NoArg == <<>>

NoChunker == [status |-> "none", given_size |-> NoArg, given_overlap |-> NoArg,
              chunk_size |-> 0, chunk_overlap |-> 0]
NoChunked == [status |-> "none", text |-> <<>>, chunks |-> <<>>]
NoEmbedded == [status |-> "none", vectors |-> <<>>, chunks |-> <<>>, checked |-> <<>>]

\* No TextChunker is constructed yet and no document is processed.
InitDocuments ==
    /\ chunker = NoChunker
    /\ chunked = NoChunked
    /\ embedded = NoEmbedded

InitChunker ==
    /\ settings = DefaultSettings
    /\ InitDocuments

\* EmbeddingService.__init__: no model, the lock free, no call made yet.
InitLoader ==
    loader = [model |-> 0, embedding_dimension |-> FALSE, lock |-> 0, built |-> 0,
              pc |-> [t \in Threads |-> "idle"], call |-> [t \in Threads |-> "none"],
              used |-> [t \in Threads |-> 0], raced |-> FALSE, ncalls |-> 0]

\* What a SearchService call returned: nothing yet, True, a SearchServiceError,
\* or index_documents' result with its counts.
StoreReturn(kind, indexed_count, failed_count) ==
    [kind |-> kind, success |-> failed_count = 0,
     indexed_count |-> indexed_count, failed_count |-> failed_count]

\* The OpenSearch cluster has no index yet; no SearchService call is made yet.
InitStore ==
    store = [exists |-> FALSE, created |-> 0, docs |-> {},
             pc |-> [t \in Threads |-> "idle"], call |-> [t \in Threads |-> "none"],
             ret |-> [t \in Threads |-> StoreReturn("none", 0, 0)],
             last |-> [documents |-> <<>>, failed |-> {}], ncalls |-> 0]

\* a number as Python has it: 0 and 0.0 are equal and are not the same
PyInt(n)   == [type |-> "int", value |-> n]
PyFloat(n) == [type |-> "float", value |-> n]

\* a hybrid_search call: its arguments
BaseSearch == [query |-> "q1", search_type |-> "hybrid", top_k |-> PyInt(5),
               min_score |-> PyFloat(0), query_embedding |-> <<1>>]

\* The calls the model makes: one, and calls that differ from it in the query
\* text, in the type of min_score only (0 for 0.0), in the vector, and in the
\* vector by one that has the same hash.
SearchArgs ==
    {BaseSearch,
     [BaseSearch EXCEPT !.query = "q2"],
     [BaseSearch EXCEPT !.min_score = PyInt(0)],
     [BaseSearch EXCEPT !.query_embedding = <<2>>],
     [BaseSearch EXCEPT !.query_embedding = <<1 + HashRange>>]}

\* No search is made yet.
InitSearched ==
    searched = [n |-> 0, args |-> BaseSearch, queried |-> FALSE, status |-> "none",
                results |-> <<>>, stored |-> [a \in SearchArgs |-> <<>>]]

\* QueryResponse: error is <<>> for None
QueryResponse(question, answer, sources, error) ==
    [question |-> question, answer |-> answer, sources |-> sources,
     total_sources |-> Len(sources), error |-> error]

\* No query is answered yet.
InitAnswered ==
    answered = [n |-> 0, question |-> "q1", use_rag |-> FALSE, calls |-> <<>>,
                embedding |-> "none", search |-> "none", gpt |-> "none", given |-> <<>>,
                response |-> QueryResponse("q1", <<>>, <<>>, <<>>)]

\* What process_document did: the ProcessedDocument it returned, or that it
\* raised; failed is the step that raised, indexing the result of index_documents.
ProcessedDocument(outcome, status, chunks, error_message, failed, indexing) ==
    [outcome |-> outcome, status |-> status, chunks_count |-> Len(chunks), chunks |-> chunks,
     error_message |-> error_message, failed |-> failed, indexing |-> indexing]

\* No document is processed yet.
InitProcessed ==
    processed_doc = ProcessedDocument("none", "none", <<>>, <<>>, "none", StoreReturn("none", 0, 0))

InitServices ==
    /\ InitLoader
    /\ InitStore
    /\ InitSearched
    /\ InitAnswered
    /\ InitProcessed
    /\ sampled = 0
    /\ rate_limiter = NoRateLimiter
    /\ deleted = {}

\* The process starts long after the epoch: the clock is already past any timeout.
Init ==
    /\ now = RecoveryTimeout
    /\ InitBreaker
    /\ InitThreads
    /\ InitCache
    /\ InitLimiter
    /\ InitChunker
    /\ InitServices

\* a breaker that never waits before it probes
ShouldAttemptReset_NoWait == now - last_failure_time >= 0

\* CircuitBreaker._should_attempt_reset
ShouldAttemptReset == now - last_failure_time >= RecoveryTimeout

\* CircuitBreaker._on_success
OnSuccess ==
    /\ IF state = "half_open"
       THEN IF success_count + 1 >= SuccessThreshold
            THEN /\ state' = "closed"
                 /\ failure_count' = 0
                 /\ success_count' = 0
            ELSE /\ success_count' = success_count + 1
                 /\ UNCHANGED <<state, failure_count>>
       ELSE IF state = "closed"
            THEN /\ failure_count' = 0
                 /\ UNCHANGED <<state, success_count>>
            ELSE UNCHANGED <<state, failure_count, success_count>>
    /\ UNCHANGED last_failure_time

\* a breaker that opens one failure late
OnFailure_OneLate ==
    /\ failure_count' = failure_count + 1
    /\ last_failure_time' = now
    /\ state' = IF state = "half_open" THEN "open"
                ELSE IF state = "closed" /\ failure_count + 1 > FailureThreshold
                     THEN "open"
                     ELSE state
    /\ UNCHANGED success_count

\* a breaker that does not record when a failed probe happened
OnFailure_StaleTime ==
    /\ failure_count' = failure_count + 1
    /\ last_failure_time' = IF state = "half_open" THEN last_failure_time ELSE now
    /\ state' = IF state = "half_open" THEN "open"
                ELSE IF state = "closed" /\ failure_count + 1 >= FailureThreshold
                     THEN "open"
                     ELSE state
    /\ UNCHANGED success_count

\* CircuitBreaker._on_failure
OnFailure ==
    /\ failure_count' = failure_count + 1
    /\ last_failure_time' = now
    /\ state' = IF state = "half_open" THEN "open"
                ELSE IF state = "closed" /\ failure_count + 1 >= FailureThreshold
                     THEN "open"
                     ELSE state
    /\ UNCHANGED success_count


\* RetryHandler._calculate_delay, in tenths of a tick; j is the value drawn
\* by random.uniform(0, delay * 0.1)
JitterMax(a) ==
    IF Jitter
    THEN Min(BaseDelay * 10 * Pow(ExponentialBase, a), MaxDelay * 10) \div 10
    ELSE 0

CalculateDelay(a, j) ==
    Min(BaseDelay * 10 * Pow(ExponentialBase, a), MaxDelay * 10) + j

\* time.sleep(delay) returns at the first tick that is delay or more away
SleepTicks(delay) == (delay + 9) \div 10

\* a retry loop that takes one attempt too many
IsLastAttempt_OneMore(a) == a = MaxAttempts

\* RetryHandler.retry: "if attempt == self.config.max_attempts - 1"
IsLastAttempt(a) == a = MaxAttempts - 1

AllIdle == \A u \in Threads : pc[u] = "idle"

Ok(i)       == [kind |-> "ok", id |-> i]         \* the value the i-th invocation returned
Error(i)    == [kind |-> "error", id |-> i]      \* the exception the i-th invocation raised
OpenError   == [kind |-> "open_error", id |-> 0] \* PolicyPilotException("Circuit breaker is OPEN")

\* CircuitBreaker.call, the part under the lock: fail fast, or admit the call
\* (an Open breaker whose timeout has elapsed becomes HalfOpen)
Rejects == state = "open" /\ ~ShouldAttemptReset

Admit ==
    /\ state' = IF state = "open" THEN "half_open" ELSE state
    /\ probeSuccesses' = IF state = "open" THEN 0 ELSE probeSuccesses
    /\ UNCHANGED <<failure_count, success_count, last_failure_time, streak>>

\* a thread enters an operation
StartOp(t, o) ==
    /\ pc[t] = "idle"
    /\ ncalls < MaxCalls
    /\ ncalls' = ncalls + 1
    /\ op' = [op EXCEPT ![t] = o]
    /\ entered' = [entered EXCEPT ![t] = [state |-> state, failure_count |-> failure_count]]
    /\ UNCHANGED <<now, attempt, outcomes, slept, wakeAt>>

\* the operation returns r to its caller, or raises r
Finish(t, r) ==
    /\ pc' = [pc EXCEPT ![t] = "done"]
    /\ result' = [result EXCEPT ![t] = r]

\* CircuitBreaker.call up to the invocation of func
CallBegin(t) ==
    /\ StartOp(t, "call")
    /\ IF Rejects
       THEN /\ Finish(t, OpenError)
            /\ UNCHANGED <<inv, breakerVars, streak, probeSuccesses>>
       ELSE /\ Admit
            /\ pc' = [pc EXCEPT ![t] = "cb_func"]
            /\ inv' = [inv EXCEPT ![t] = 1]
            /\ UNCHANGED result

\* a resilient call that leaves the breaker out
ResilientBegin_RetryOnly(t) ==
    /\ StartOp(t, "resilient")
    /\ inv' = [inv EXCEPT ![t] = 1]
    /\ pc' = [pc EXCEPT ![t] = "retry_func"]
    /\ UNCHANGED <<result, breakerVars, streak, probeSuccesses>>

\* ResilienceManager.resilient_call up to the first invocation of func: the
\* breaker's exception is caught and the retry handler takes over
ResilientBegin(t) ==
    /\ StartOp(t, "resilient")
    /\ inv' = [inv EXCEPT ![t] = 1]
    /\ IF Rejects
       THEN /\ pc' = [pc EXCEPT ![t] = "retry_func"]
            /\ UNCHANGED <<breakerVars, streak, probeSuccesses>>
       ELSE /\ Admit
            /\ pc' = [pc EXCEPT ![t] = "cb_func"]
    /\ UNCHANGED result

\* func returns or raises inside CircuitBreaker.call
BreakerFuncReturn(t, ok) ==
    /\ pc[t] = "cb_func"
    /\ outcomes' = [outcomes EXCEPT ![t] = Append(outcomes[t], ok)]
    /\ IF ok
       THEN /\ OnSuccess
            /\ streak' = 0
            /\ probeSuccesses' = IF state = "half_open"
                                  THEN probeSuccesses + 1 ELSE probeSuccesses
            /\ Finish(t, Ok(inv[t]))
            /\ UNCHANGED inv
       ELSE /\ OnFailure
            /\ streak' = streak + 1
            /\ UNCHANGED probeSuccesses
            /\ IF op[t] = "resilient"
               THEN /\ pc' = [pc EXCEPT ![t] = "retry_func"]
                    /\ inv' = [inv EXCEPT ![t] = inv[t] + 1]
                    /\ UNCHANGED result
               ELSE /\ Finish(t, Error(inv[t]))
                    /\ UNCHANGED inv
    /\ UNCHANGED <<now, op, attempt, slept, wakeAt, ncalls, entered>>

\* RetryHandler.retry up to the first invocation of func
RetryBegin(t) ==
    /\ StartOp(t, "retry")
    /\ pc' = [pc EXCEPT ![t] = "retry_func"]
    /\ inv' = [inv EXCEPT ![t] = 1]
    /\ UNCHANGED <<result, breakerVars, streak, probeSuccesses>>

\* func returns or raises inside RetryHandler.retry
RetryFuncReturn(t, ok, j) ==
    /\ pc[t] = "retry_func"
    /\ outcomes' = [outcomes EXCEPT ![t] = Append(outcomes[t], ok)]
    /\ IF ok
       THEN /\ Finish(t, Ok(inv[t]))
            /\ UNCHANGED <<slept, wakeAt>>
       ELSE IF IsLastAttempt(attempt[t])
            THEN /\ Finish(t, Error(inv[t]))
                 /\ UNCHANGED <<slept, wakeAt>>
            ELSE /\ pc' = [pc EXCEPT ![t] = "retry_sleep"]
                 /\ slept' = [slept EXCEPT ![t] = slept[t] + 1]
                 /\ wakeAt' = [wakeAt EXCEPT ![t] =
                                  now + SleepTicks(CalculateDelay(attempt[t], j))]
                 /\ UNCHANGED result
    /\ UNCHANGED <<now, breakerVars, op, attempt, inv, ncalls, streak, probeSuccesses, entered>>

\* time.sleep returns and the loop of RetryHandler.retry invokes func again
RetryWake(t) ==
    /\ pc[t] = "retry_sleep"
    /\ now >= wakeAt[t]
    /\ pc' = [pc EXCEPT ![t] = "retry_func"]
    /\ attempt' = [attempt EXCEPT ![t] = attempt[t] + 1]
    /\ inv' = [inv EXCEPT ![t] = inv[t] + 1]
    /\ UNCHANGED <<now, breakerVars, op, outcomes, slept, wakeAt, result, ncalls,
                   streak, probeSuccesses, entered>>

\* the caller has the outcome; the operation's locals are gone
Return(t) ==
    /\ pc[t] = "done"
    /\ pc' = [pc EXCEPT ![t] = "idle"]
    /\ op' = [op EXCEPT ![t] = "none"]
    /\ attempt' = [attempt EXCEPT ![t] = 0]
    /\ inv' = [inv EXCEPT ![t] = 0]
    /\ outcomes' = [outcomes EXCEPT ![t] = <<>>]
    /\ slept' = [slept EXCEPT ![t] = 0]
    /\ wakeAt' = [wakeAt EXCEPT ![t] = 0]
    /\ result' = [result EXCEPT ![t] = NoResult]
    /\ entered' = [entered EXCEPT ![t] = NoEntry]
    /\ UNCHANGED <<now, breakerVars, ncalls, streak, probeSuccesses>>

\* the wall clock advances
Tick ==
    /\ now < MaxTime
    /\ now' = now + 1

\* One caller at a time: an operation starts only when no other is running.
Next ==
    /\ UNCHANGED <<cacheVars, otherVars>>
    /\ \/ \E t \in Threads : AllIdle /\ CallBegin(t)
       \/ \E t \in Threads : AllIdle /\ ResilientBegin(t)
       \/ \E t \in Threads : AllIdle /\ RetryBegin(t)
       \/ \E t \in Threads, ok \in BOOLEAN : BreakerFuncReturn(t, ok)
       \/ \E t \in Threads, ok \in BOOLEAN :
             \E j \in 0..JitterMax(attempt[t]) : RetryFuncReturn(t, ok, j)
       \/ \E t \in Threads : RetryWake(t)
       \/ \E t \in Threads : Return(t)
       \/ Tick /\ UNCHANGED resilVars

Spec == Init /\ [][Next]_vars

----------------------------------------------------------------------------
\* CacheService.  _cache is an OrderedDict: a sequence of entries without
\* duplicate keys, the oldest first.  The counters of _stats are only read by
\* get_stats and are left out.

Max(a, b) == IF a > b THEN a ELSE b

KeysOf(c) == {c[i].key : i \in 1..Len(c)}

Has(c, k) == k \in KeysOf(c)

ItemOf(c, k) == c[CHOOSE i \in 1..Len(c) : c[i].key = k]

\* del self._cache[key]
Without(c, k) ==
    LET keep(e) == e.key # k
    IN  SelectSeq(c, keep)

\* a cache whose reads do not refresh the entry
MoveToEnd_Stay(c, k) == c

\* self._cache.move_to_end(key)
MoveToEnd(c, k) == Append(Without(c, k), ItemOf(c, k))

\* a cache that keeps its entries for ever
IsExpired_Never(item) == FALSE

\* CacheService.get: "if time.time() > item['expires_at']"
IsExpired(item) == now > item.expires_at

\* CacheService.get: the entry is there and has not expired
Live(c, k) == Has(c, k) /\ ~IsExpired(ItemOf(c, k))

\* CacheService.get: the value returned, None for a miss
GetValue(c, k) == IF Live(c, k) THEN ItemOf(c, k).value ELSE None

\* CacheService.get: the cache it leaves
GetCache(c, k) ==
    IF ~Has(c, k) THEN c
    ELSE IF IsExpired(ItemOf(c, k)) THEN Without(c, k)
    ELSE MoveToEnd(c, k)

\* CacheService._evict_oldest
EvictOldest(c) == IF c # <<>> THEN Tail(c) ELSE c

RECURSIVE EvictTimes(_, _)
EvictTimes(c, n) == IF n = 0 THEN c ELSE EvictTimes(EvictOldest(c), n - 1)

\* a check that evicts one entry whatever the size of the cache
CheckMemoryUsage_One(c, mem) ==
    IF mem > MemoryThreshold
    THEN EvictTimes(c, 1)
    ELSE c

\* CacheService._check_memory_usage
CheckMemoryUsage(c, mem) ==
    IF mem > MemoryThreshold
    THEN EvictTimes(c, Max(1, Len(c) \div 4))
    ELSE c

\* a cache that tolerates one entry too many
OverCapacity_OneMore(c) == Len(c) > MaxSize + 1

\* CacheService.set: "while len(self._cache) > self.max_size"
OverCapacity(c) == Len(c) > MaxSize

RECURSIVE EvictToCapacity(_)
EvictToCapacity(c) ==
    IF OverCapacity(c) /\ c # <<>> THEN EvictToCapacity(EvictOldest(c)) ELSE c

\* CacheService.set: "if ttl is None: ttl = self.default_ttl"
EffectiveTtl(ttl) == IF ttl = NoTtl THEN DefaultTtl ELSE ttl[1]

\* a set that leaves the entry another caller has stored
Insert_KeepFirst(c, k, v, ttl, mem) ==
    LET item == [key |-> k, value |-> v, expires_at |-> now + EffectiveTtl(ttl)]
        checked == CheckMemoryUsage(c, mem)
    IN  IF Has(checked, k) THEN checked ELSE Append(checked, item)

\* CacheService.set up to "self._cache[key] = item"
Insert(c, k, v, ttl, mem) ==
    LET item == [key |-> k, value |-> v, expires_at |-> now + EffectiveTtl(ttl)]
    IN  Append(Without(CheckMemoryUsage(c, mem), k), item)

\* CacheService.set: the cache it leaves
SetCache(c, k, v, ttl, mem) == EvictToCapacity(Insert(c, k, v, ttl, mem))

\* CacheService.cleanup_expired: the cache it leaves
CleanupCache(c) ==
    LET alive(e) == ~IsExpired(e)
    IN  SelectSeq(c, alive)

\* CacheService.get: the return statement taken
GetPath(c, k) ==
    IF ~Has(c, k) THEN "absent"
    ELSE IF IsExpired(ItemOf(c, k)) THEN "expired"
    ELSE "hit"

\* CacheService.set: whether the loop "while len(self._cache) > self.max_size" ran
SetPath(c, k, v, ttl, mem) ==
    IF OverCapacity(Insert(c, k, v, ttl, mem)) THEN "evicted" ELSE "stored"

\* a call that holds the lock from start to end, made by a thread that is not
\* inside get_or_set
StartCacheOp ==
    /\ \E t \in Threads : gpc[t] = "idle"
    /\ nops' = nops + 1

\* CacheService.get
CacheGet(k) ==
    /\ StartCacheOp
    /\ cache' = GetCache(cache, k)
    /\ last' = Returned("get", k, None, NoTtl, GetPath(cache, k), GetValue(cache, k), 0)
    /\ UNCHANGED gosVars

\* CacheService.set
CacheSet(k, v, ttl, mem) ==
    /\ StartCacheOp
    /\ cache' = SetCache(cache, k, v, ttl, mem)
    /\ last' = Returned("set", k, v, ttl, SetPath(cache, k, v, ttl, mem), "True", 0)
    /\ UNCHANGED gosVars

\* CacheService.delete
CacheDelete(k) ==
    /\ StartCacheOp
    /\ cache' = Without(cache, k)
    /\ last' = Returned("delete", k, None, NoTtl, "-",
                        IF Has(cache, k) THEN "True" ELSE "False", 0)
    /\ UNCHANGED gosVars

\* CacheService.clear
CacheClear ==
    /\ StartCacheOp
    /\ cache' = <<>>
    /\ last' = Returned("clear", None, None, NoTtl, "-", None, 0)
    /\ UNCHANGED gosVars

\* CacheService.cleanup_expired
CacheCleanupExpired ==
    /\ StartCacheOp
    /\ cache' = CleanupCache(cache)
    /\ last' = Returned("cleanup_expired", None, None, NoTtl, "-", None, 0)
    /\ UNCHANGED gosVars

\* CacheService.get_or_set up to the invocation of factory: "value =
\* self.get(key); if value is not None: return value"
\* (threads are interchangeable: the caller is the first one that is free)
GosBegin(t, k, ttl) ==
    /\ gpc[t] = "idle"
    /\ \A u \in Threads : gpc[u] = "idle" => t <= u
    /\ StartCacheOp
    /\ cache' = GetCache(cache, k)
    /\ IF GetValue(cache, k) # None
       THEN /\ last' = Returned("get_or_set", k, None, ttl, "cached", GetValue(cache, k), 0)
            /\ UNCHANGED gosVars
       ELSE /\ last' = Returned("get", k, None, NoTtl, GetPath(cache, k), None, 0)
            /\ gpc' = [gpc EXCEPT ![t] = "factory"]
            /\ gkey' = [gkey EXCEPT ![t] = k]
            /\ gttl' = [gttl EXCEPT ![t] = ttl]

\* get_or_set returns: its locals are gone
GosLeave(t) ==
    /\ gpc' = [gpc EXCEPT ![t] = "idle"]
    /\ gkey' = [gkey EXCEPT ![t] = None]
    /\ gttl' = [gttl EXCEPT ![t] = NoTtl]

\* factory returns v: "self.set(key, value, ttl); return value" (what other
\* threads do between the return of factory and the set they could as well do
\* before factory returns)
GosFactoryReturn(t, v, mem) ==
    /\ gpc[t] = "factory"
    /\ cache' = SetCache(cache, gkey[t], v, gttl[t], mem)
    /\ last' = Returned("get_or_set", gkey[t], v, gttl[t],
                        SetPath(cache, gkey[t], v, gttl[t], mem), v, 1)
    /\ GosLeave(t)
    /\ UNCHANGED nops

\* factory raises: "except Exception ... return factory()" invokes it a second
\* time; what that invocation returns is returned without being stored, what
\* it raises reaches the caller
GosFactoryRaise(t, ok, v) ==
    /\ gpc[t] = "factory"
    /\ last' = Returned("get_or_set", gkey[t], None, gttl[t], "uncached",
                        IF ok THEN v ELSE "raised", 2)
    /\ GosLeave(t)
    /\ UNCHANGED <<cache, nops>>

\* One get_or_set at a time; the other operations take the lock for their
\* whole duration and run between its steps.
NoGosRunning == \A u \in Threads : gpc[u] = "idle"

NextCache ==
    /\ UNCHANGED <<now, resilVars, lruHistory, otherVars>>
    /\ \/ \E k \in Keys : nops < MaxOps /\ CacheGet(k)
       \/ \E k \in Keys, v \in Values, ttl \in TtlArgs, mem \in MemorySamples :
             nops < MaxOps /\ CacheSet(k, v, ttl, mem)
       \/ \E k \in Keys : nops < MaxOps /\ CacheDelete(k)
       \/ nops < MaxOps /\ CacheClear
       \/ nops < MaxOps /\ CacheCleanupExpired
       \/ \E t \in Threads, k \in Keys, ttl \in TtlArgs :
             nops < MaxOps /\ NoGosRunning /\ GosBegin(t, k, ttl)
       \/ \E t \in Threads, v \in Values, mem \in MemorySamples : GosFactoryReturn(t, v, mem)
       \/ \E t \in Threads, ok \in BOOLEAN, v \in Values : GosFactoryRaise(t, ok, v)

CacheTick == Tick /\ now < MaxCacheTime /\ UNCHANGED <<resilVars, cacheVars, otherVars>>

SpecCache == Init /\ [][NextCache \/ CacheTick]_vars

\* history: k is now the last of seq
Use(seq, k) ==
    LET other(x) == x # k
    IN  Append(SelectSeq(seq, other), k)

\* history of a step that stores k
SetHistory(k, mem) ==
    /\ recency' = Use(recency, k)
    /\ usedBy' = [usedBy EXCEPT ![k] = "set"]
    /\ inserted' = IF Has(cache, k) THEN inserted ELSE Use(inserted, k)
    /\ pressed' = (pressed \/ CheckMemoryUsage(cache, mem) # cache)

\* history of a step that reads k: only a hit is a use
GetHistory(k) ==
    /\ recency' = IF GetPath(cache, k) = "hit" THEN Use(recency, k) ELSE recency
    /\ usedBy' = IF GetPath(cache, k) = "hit" THEN [usedBy EXCEPT ![k] = "get"] ELSE usedBy
    /\ UNCHANGED <<inserted, pressed>>

\* The runs that watch the eviction order: get, set and delete, every entry
\* stored with the same value (eviction does not look at it).
NextLru ==
    /\ UNCHANGED <<now, resilVars, otherVars>>
    /\ nops < MaxLruOps
    /\ \/ \E k \in Keys : CacheGet(k) /\ GetHistory(k)
       \/ \E k \in Keys, ttl \in TtlArgs, mem \in MemorySamples :
             CacheSet(k, "v1", ttl, mem) /\ SetHistory(k, mem)
       \/ \E k \in Keys : CacheDelete(k) /\ UNCHANGED lruHistory

SpecLru == Init /\ [][NextLru \/ CacheTick]_vars

----------------------------------------------------------------------------
\* What a step did, read off the two states of the step.

\* thread t entered operation o
Started(t, o) == pc[t] = "idle" /\ pc'[t] # "idle" /\ op'[t] = o

\* the breaker recorded a failure, resp. a success, of the call of thread t
BreakerSawFailure(t) ==
    /\ pc[t] = "cb_func"
    /\ Len(outcomes'[t]) = Len(outcomes[t]) + 1
    /\ ~outcomes'[t][Len(outcomes'[t])]

BreakerSawSuccess(t) ==
    /\ pc[t] = "cb_func"
    /\ Len(outcomes'[t]) = Len(outcomes[t]) + 1
    /\ outcomes'[t][Len(outcomes'[t])]

WindowOpen == now - last_failure_time < RecoveryTimeout

----------------------------------------------------------------------------
\* C1: called by one caller at a time, a Closed breaker opens exactly on the
\* call that completes the failure_threshold-th failure in a row: a success
\* while Closed sets failure_count to 0, and a failure while Closed opens the
\* breaker if and only if it is the failure_threshold-th since the last success.
C1_OpensOnThresholdFailure ==
    [][\A t \in Threads :
          /\ (state = "closed" /\ state' = "open") =>
                (streak' = FailureThreshold /\ \E u \in Threads : BreakerSawFailure(u))
          /\ (state = "closed" /\ BreakerSawSuccess(t)) =>
                (failure_count' = 0 /\ state' = "closed")
          /\ (state = "closed" /\ BreakerSawFailure(t)) =>
                (state' = "open" <=> streak' = FailureThreshold)]_vars

C1_Witness ==
    /\ state = "open"
    /\ streak = FailureThreshold
    /\ failure_count = FailureThreshold

\* C2: a call() on a breaker that is Open with the recovery window not yet
\* elapsed raises the open-circuit error, does not invoke the wrapped function
\* and changes no field of the breaker.
C2_OpenFailsFast ==
    [][\A t \in Threads :
          (Started(t, "call") /\ state = "open" /\ WindowOpen) =>
              /\ pc'[t] = "done"
              /\ result'[t] = OpenError
              /\ inv'[t] = 0
              /\ outcomes'[t] = <<>>
              /\ UNCHANGED <<state, failure_count, success_count, last_failure_time>>]_vars

C2_Witness ==
    \E t \in Threads :
        /\ pc[t] = "done"
        /\ op[t] = "call"
        /\ result[t] = OpenError
        /\ state = "open"

\* C3: a HalfOpen breaker closes only after success_threshold successes made
\* since it last entered HalfOpen, and then both counters are 0.
C3_ClosesAfterThresholdProbes ==
    [][(state = "half_open" /\ state' = "closed") =>
          /\ probeSuccesses' >= SuccessThreshold
          /\ failure_count' = 0
          /\ success_count' = 0]_vars

\* C4: a failure while HalfOpen reopens the breaker and records its time; while
\* the breaker stays Open that time stands, a call() made before
\* recovery_timeout has elapsed since it fails fast, and the first call made
\* after moves the breaker to HalfOpen and invokes the wrapped function.
C4_FailedProbeReopens ==
    [][\A t \in Threads :
          /\ (state = "half_open" /\ BreakerSawFailure(t)) =>
                (state' = "open" /\ last_failure_time' = now)
          /\ (state = "open" /\ state' = "open") =>
                last_failure_time' = last_failure_time
          /\ (state = "open" /\ Started(t, "call") /\ WindowOpen) =>
                (state' = "open" /\ pc'[t] = "done" /\ result'[t] = OpenError /\ inv'[t] = 0)
          /\ (state = "open" /\ Started(t, "call") /\ ~WindowOpen) =>
                (state' = "half_open" /\ pc'[t] = "cb_func" /\ inv'[t] = 1)]_vars

\* the breaker reopened from HalfOpen (only then can failure_count pass the
\* threshold) and a call has failed fast since
C4_Witness ==
    /\ state = "open"
    /\ failure_count > FailureThreshold
    /\ \E t \in Threads : pc[t] = "done" /\ op[t] = "call" /\ result[t] = OpenError

\* C5: resilient_call on a service whose breaker is Open with the recovery
\* window not yet elapsed reports the open circuit at once and does not invoke
\* the wrapped function.
C5_ResilientCallReportsOpen ==
    [][\A t \in Threads :
          (Started(t, "resilient") /\ state = "open" /\ WindowOpen) =>
              /\ pc'[t] = "done"
              /\ result'[t] = OpenError
              /\ inv'[t] = 0]_vars

\* C6: RetryHandler.retry invokes func at most max_attempts times; it returns
\* the result of the first invocation that succeeds and invokes nothing after
\* it; if all max_attempts invocations fail it raises the exception of the last
\* one; it sleeps once between two invocations and never after the last.
FirstSuccess(os) ==
    IF \E i \in 1..Len(os) : os[i]
    THEN CHOOSE i \in 1..Len(os) : os[i] /\ \A k \in 1..(i - 1) : ~os[k]
    ELSE 0

C6_RetryContract ==
    \A t \in Threads :
        op[t] = "retry" =>
            /\ inv[t] <= MaxAttempts
            /\ pc[t] = "retry_sleep" => (slept[t] = inv[t] /\ inv[t] < MaxAttempts)
            /\ pc[t] = "retry_func" => slept[t] = inv[t] - 1
            /\ pc[t] = "done" =>
                  /\ Len(outcomes[t]) = inv[t]
                  /\ slept[t] = inv[t] - 1
                  /\ IF FirstSuccess(outcomes[t]) # 0
                     THEN /\ inv[t] = FirstSuccess(outcomes[t])
                          /\ result[t] = Ok(FirstSuccess(outcomes[t]))
                     ELSE /\ inv[t] = MaxAttempts
                          /\ result[t] = Error(MaxAttempts)

\* every attempt failed: max_attempts invocations, max_attempts - 1 sleeps
C6_Witness ==
    \E t \in Threads :
        /\ op[t] = "retry"
        /\ pc[t] = "done"
        /\ result[t] = Error(MaxAttempts)
        /\ slept[t] = MaxAttempts - 1



\* every invocation the operation of thread t made has failed
AllFailed(t) == \A i \in 1..Len(outcomes[t]) : ~outcomes[t][i]

\* C32: a resilient_call that finds the breaker Closed and whose function
\* always fails invokes it 1 + max_attempts times, raises the last error, and
\* leaves failure_count exactly one above what it found.
C32_OneRecordedFailure ==
    \A t \in Threads :
        (op[t] = "resilient" /\ pc[t] = "done" /\ entered[t].state = "closed" /\ AllFailed(t)) =>
            /\ inv[t] = 1 + MaxAttempts
            /\ Len(outcomes[t]) = 1 + MaxAttempts
            /\ result[t] = Error(1 + MaxAttempts)
            /\ failure_count = entered[t].failure_count + 1

\* a resilient_call found the breaker Closed with a failure on record, and
\* every invocation failed
C32_Witness ==
    \E t \in Threads :
        /\ op[t] = "resilient"
        /\ pc[t] = "done"
        /\ entered[t].state = "closed"
        /\ entered[t].failure_count = 1
        /\ AllFailed(t)
        /\ failure_count = 2

----------------------------------------------------------------------------
\* What a step of the cache did, read off the two states of the step.

\* a call of operation o on key k took the lock in this step (the get that
\* opens a get_or_set that misses is a call of get)
CacheOpStep(o, k) == nops' = nops + 1 /\ last'.op = o /\ last'.key = k

\* a get_or_set that missed returns in this step
GosEnd(t) == gpc[t] # "idle" /\ gpc'[t] = "idle"

\* this step stored an entry under k
Stores(k) ==
    \/ CacheOpStep("set", k)
    \/ \E t \in Threads : gkey[t] = k /\ GosEnd(t) /\ last'.path # "uncached"

\* x comes before y in seq
Before(seq, x, y) ==
    \E i, j \in 1..Len(seq) : i < j /\ seq[i] = x /\ seq[j] = y

C8_SizeBound ==
    /\ Len(cache) <= MaxSize
    /\ Cardinality(KeysOf(cache)) = Len(cache)

\* a set found the cache over capacity and evicted
C8_Witness ==
    /\ last.op = "set"
    /\ last.path = "evicted"
    /\ Len(cache) = MaxSize

\* the key a set stores stays, and the keys it removes were used (by a get hit
\* or a set) less recently than every other key it keeps; a set that removes
\* for capacity leaves max_size entries
EvictsLeastRecentlyUsed ==
    \A k \in Keys :
        CacheOpStep("set", k) =>
           /\ Has(cache', k)
           /\ last'.path = "evicted" => Len(cache') = MaxSize
           /\ \A r \in KeysOf(cache) \ KeysOf(cache') :
                 \A q \in (KeysOf(cache) \cap KeysOf(cache')) \ {k} :
                     Before(recency, r, q)

\* the calls so far were set a, set b, set c
RanABC ==
    /\ nops = 3
    /\ inserted = <<"a", "b", "c">>
    /\ recency = <<"a", "b", "c">>

\* the calls so far were set a, set b, get a (a hit), set c
RanABgetAC ==
    /\ nops = 4
    /\ inserted = <<"a", "b", "c">>
    /\ recency = <<"b", "a", "c">>
    /\ usedBy["a"] = "get"

\* C9 as stated: a set evicts the least recently used entries, a get hit and a
\* set both making their key the most recently used; with max_size = 2,
\* set a, set b, set c leaves exactly {b, c} and set a, set b, get a, set c
\* leaves exactly {a, c}.
C9_LruEvictionAsStated ==
    /\ [][EvictsLeastRecentlyUsed]_vars
    /\ [](MaxSize = 2 =>
            /\ RanABC => KeysOf(cache) = {"b", "c"}
            /\ RanABgetAC => KeysOf(cache) = {"a", "c"})

\* C9: a set evicts the least recently used entries, a get hit and a set both
\* making their key the most recently used; with max_size = 2 and no set
\* having evicted for memory pressure, set a, set b, set c leaves exactly
\* {b, c} and set a, set b, get a, set c leaves exactly {a, c}.
C9_LruEviction ==
    /\ [][EvictsLeastRecentlyUsed]_vars
    /\ [](MaxSize = 2 /\ ~pressed =>
            /\ RanABC => KeysOf(cache) = {"b", "c"}
            /\ RanABgetAC => KeysOf(cache) = {"a", "c"})

\* set a, set b, get a, set c: the set of c evicted b although a is the older
\* entry
C9_Witness ==
    /\ RanABgetAC
    /\ ~pressed
    /\ last.op = "set"
    /\ last.key = "c"
    /\ last.path = "evicted"
    /\ KeysOf(cache) = {"a", "c"}

\* C10: get_or_set(k, factory, ttl) called while k has a live entry returns the
\* cached value without invoking factory; otherwise, when it returns, it has
\* invoked factory exactly once, returns what factory returned, and k has a
\* live entry with that value and the given ttl (so that a get at once
\* returns it).
C10_GetOrSetContract ==
    [][\A t \in Threads :
          /\ \A k \in Keys :
                (gpc[t] = "idle" /\ Live(cache, k) /\ gpc'[t] # "idle") => gkey'[t] # k
          /\ \A k \in Keys :
                (CacheOpStep("get_or_set", k) /\ Live(cache, k)) =>
                    (last'.ret = ItemOf(cache, k).value /\ last'.calls = 0)
          /\ GosEnd(t) =>
                /\ last'.op = "get_or_set"
                /\ last'.key = gkey[t]
                /\ last'.calls = 1
                /\ Has(cache', gkey[t])
                /\ ItemOf(cache', gkey[t]) =
                      [key |-> gkey[t], value |-> last'.ret,
                       expires_at |-> now + (IF gttl[t] = NoTtl THEN DefaultTtl
                                             ELSE gttl[t][1])]]_vars

----------------------------------------------------------------------------
\* Rate limiter (src/api/rate_limiter.py)

\* AdvancedRateLimiter._get_endpoint_type: "if '/upload' in endpoint ... else
\* return 'default'"
GetEndpointType(path) ==
    IF \E i \in 1..Len(path) : path[i] = "upload" THEN "upload" ELSE "default"

\* a limiter whose buckets start empty
NewBucket_Empty(lim) == [tokens |-> 0, last_refill |-> now]

\* RateLimiter.is_allowed: "if client_id not in self.buckets": a full bucket
NewBucket(lim) == [tokens |-> lim.burst_size * TokenScale, last_refill |-> now]

BucketOf(bs, c, lim) == IF bs[c] = NoBucket THEN NewBucket(lim) ELSE bs[c]

\* a refill that forgets the cap
Refill_NoCap(b, lim) ==
    [tokens |-> b.tokens + ((now - b.last_refill) * lim.requests_per_minute * TokenScale) \div 60,
     last_refill |-> now]

\* RateLimiter.is_allowed: "bucket['tokens'] = min(self.burst_size,
\* bucket['tokens'] + tokens_to_add); bucket['last_refill'] = current_time"
Refill(b, lim) ==
    [tokens |-> Min(lim.burst_size * TokenScale,
                    b.tokens + ((now - b.last_refill) * lim.requests_per_minute * TokenScale) \div 60),
     last_refill |-> now]

\* RateLimiter.is_allowed: "if bucket['tokens'] >= 1"
CanGrant(b) == b.tokens >= TokenScale

\* a limiter that charges two tokens
Deduct_Two(b) == [b EXCEPT !.tokens = @ - 2 * TokenScale]

\* RateLimiter.is_allowed: "bucket['tokens'] -= 1"
Deduct(b) == [b EXCEPT !.tokens = @ - TokenScale]

\* RateLimiter.is_allowed: whether it grants, and the bucket it leaves
Grants(bs, c, lim) == CanGrant(Refill(BucketOf(bs, c, lim), lim))

Checked(bs, c, lim) ==
    LET b == Refill(BucketOf(bs, c, lim), lim)
    IN  IF CanGrant(b) THEN Deduct(b) ELSE b

\* history: one more call on the bucket of client c
SeenAgain(s, isNew) ==
    IF isNew
    THEN [born |-> now, calls |-> 1, latest |-> now, prev |-> now]
    ELSE [born |-> s.born, calls |-> s.calls + 1, latest |-> now, prev |-> s.latest]

\* RateLimiter.is_allowed(client_id) on the limiter of endpoint type e: its
\* effect on the buckets
CheckBucket(e, c) ==
    /\ buckets' = [buckets EXCEPT ![e][c] = Checked(buckets[e], c, EndpointLimits[e])]
    /\ seen' = [seen EXCEPT ![e][c] = SeenAgain(@, buckets[e][c] = NoBucket)]

Answered(o, e, c, a, pth, st, h) ==
    [op |-> o, type |-> e, client |-> c, allowed |-> a, path |-> pth,
     status |-> st, handled |-> h]

\* AdvancedRateLimiter.is_allowed(request): get_limiter creates the limiter of
\* the endpoint type on first use, then RateLimiter.is_allowed
IsAllowed(path, c) ==
    LET e == GetEndpointType(path)
        a == Grants(buckets[e], c, EndpointLimits[e])
    IN  /\ nreqs' = nreqs + 1
        /\ limiters' = limiters \cup {e}
        /\ CheckBucket(e, c)
        /\ lreq' = Answered("is_allowed", e, c, a, IF a THEN "grant" ELSE "deny", 0, 0)

\* rate_limit_middleware after is_allowed answered a: 429 when denied; else
\* call_next, whose exception the "except Exception" of the middleware answers
\* with a second call_next (h: the handler is "ok", "raises" once, "fails"
\* each time)
Respond(e, c, a, pth, h) ==
    IF ~a THEN Answered("request", e, c, FALSE, pth, 429, 0)
    ELSE IF h = "ok" THEN Answered("request", e, c, TRUE, pth, 200, 1)
    ELSE IF h = "raises" THEN Answered("request", e, c, TRUE, pth, 200, 2)
    ELSE Answered("request", e, c, TRUE, pth, 500, 2)

Handlers == {"ok", "raises", "fails"}

\* rate_limit_middleware
RateLimitMiddleware(path, c, h) ==
    LET e == GetEndpointType(path)
        a == Grants(buckets[e], c, EndpointLimits[e])
    IN  /\ nreqs' = nreqs + 1
        /\ limiters' = limiters \cup {e}
        /\ CheckBucket(e, c)
        /\ lreq' = Respond(e, c, a, IF a THEN "grant" ELSE "deny", h)

\* a limiter that fails closed
AllowOnError_Deny == FALSE

\* "except Exception ... return True, {'allowed': True, 'error': str(e)}" of
\* RateLimiter.is_allowed and of AdvancedRateLimiter.is_allowed
AllowOnError == TRUE

\* rate_limit_middleware when RateLimiter.is_allowed raises inside its try
\* block, before it touched the bucket or after (late)
MiddlewareLimiterFails(path, c, late, h) ==
    LET e == GetEndpointType(path)
    IN  /\ nreqs' = nreqs + 1
        /\ limiters' = limiters \cup {e}
        /\ IF late THEN CheckBucket(e, c) ELSE UNCHANGED <<buckets, seen>>
        /\ lreq' = Respond(e, c, AllowOnError, "limiter_error", h)

\* rate_limit_middleware when AdvancedRateLimiter.is_allowed raises inside its
\* try block, before it reached a limiter
MiddlewareAdvancedFails(path, c, h) ==
    /\ nreqs' = nreqs + 1
    /\ lreq' = Respond(GetEndpointType(path), c, AllowOnError, "advanced_error", h)
    /\ UNCHANGED <<limiters, buckets, seen>>

\* rate_limit_middleware when its own try block raises after is_allowed
\* answered and before call_next: "except Exception ... return await
\* call_next(request)" (the handler is then "ok" or "fails")
MiddlewareFails(path, c, h) ==
    LET e == GetEndpointType(path)
    IN  /\ h # "raises"
        /\ nreqs' = nreqs + 1
        /\ limiters' = limiters \cup {e}
        /\ CheckBucket(e, c)
        /\ lreq' = Answered("request", e, c, Grants(buckets[e], c, EndpointLimits[e]),
                            "middleware_error", IF h = "ok" THEN 200 ELSE 500, 1)

\* RateLimiter.cleanup_old_buckets(max_age) on the limiter of endpoint type e
Stale(b) == b # NoBucket /\ now - b.last_refill > MaxAge

CleanupOldBuckets(e) ==
    /\ e \in limiters
    /\ nreqs' = nreqs + 1
    /\ buckets' = [buckets EXCEPT ![e] =
                      [c \in Clients |-> IF Stale(buckets[e][c]) THEN NoBucket ELSE buckets[e][c]]]
    /\ seen' = [seen EXCEPT ![e] =
                   [c \in Clients |-> IF Stale(buckets[e][c]) THEN NoSeen ELSE seen[e][c]]]
    /\ lreq' = Answered("cleanup_old_buckets", e, "none", FALSE, "-",
                        Cardinality({c \in Clients : Stale(buckets[e][c])}), 0)
    /\ UNCHANGED limiters

NextLimiter ==
    /\ UNCHANGED <<now, resilVars, cacheVars, chunkerVars, serviceVars>>
    /\ nreqs < MaxRequests
    /\ \/ \E p \in Paths, c \in Clients : IsAllowed(p, c)
       \/ \E e \in EndpointTypes : CleanupOldBuckets(e)

LimiterTick == Tick /\ now < MaxLimiterTime /\ UNCHANGED <<resilVars, cacheVars, otherVars>>

SpecLimiter == Init /\ [][NextLimiter \/ LimiterTick]_vars

\* The requests the server receives, the limiter failing or not
NextMiddleware ==
    /\ UNCHANGED <<now, resilVars, cacheVars, chunkerVars, serviceVars>>
    /\ nreqs < MaxMiddlewareRequests
    /\ \/ \E p \in Paths, c \in Clients, h \in Handlers : RateLimitMiddleware(p, c, h)
       \/ \E p \in Paths, c \in Clients, late \in BOOLEAN, h \in Handlers :
             MiddlewareLimiterFails(p, c, late, h)
       \/ \E p \in Paths, c \in Clients, h \in Handlers : MiddlewareAdvancedFails(p, c, h)
       \/ \E p \in Paths, c \in Clients, h \in Handlers : MiddlewareFails(p, c, h)

SpecMiddleware == Init /\ [][NextMiddleware \/ LimiterTick]_vars

----------------------------------------------------------------------------
\* What a step of the rate limiter did, read off the two states of the step.

\* is_allowed ran for client c on the limiter of endpoint type e (called
\* directly or by the middleware)
CheckStep(e, c) ==
    /\ nreqs' = nreqs + 1
    /\ lreq'.op \in {"is_allowed", "request"}
    /\ lreq'.type = e
    /\ lreq'.client = c

\* C12: every bucket holds at least 0 and at most burst_size tokens, whatever
\* is_allowed and cleanup_old_buckets calls were made for whatever clients
\* (the clock of the model never goes backwards).
C12_TokensInRange ==
    \A e \in EndpointTypes, c \in Clients :
        buckets[e][c] # NoBucket =>
            /\ buckets[e][c].tokens >= 0
            /\ buckets[e][c].tokens <= EndpointLimits[e].burst_size * TokenScale

\* one client has drained its bucket, another has let more time pass than its
\* bucket can hold tokens for: its refill was capped before the grant
C12_Witness ==
    \E e \in EndpointTypes, c1, c2 \in Clients :
        /\ buckets[e][c1] # NoBucket
        /\ buckets[e][c1].tokens = 0
        /\ seen[e][c2].calls = 2
        /\ (seen[e][c2].latest - seen[e][c2].prev) * EndpointLimits[e].requests_per_minute
              >= 2 * 60
        /\ buckets[e][c2].tokens = (EndpointLimits[e].burst_size - 1) * TokenScale

\* C13: a new client's first burst_size calls made with no time elapsing are
\* granted and the next one is denied; when it then waits 60 /
\* requests_per_minute seconds without calling, its next call is granted.
C13_BurstThenWait ==
    [][\A e \in EndpointTypes, c \in Clients :
          CheckStep(e, c) =>
             LET s == seen[e][c]
                 lim == EndpointLimits[e]
             IN  /\ (buckets[e][c] = NoBucket /\ lim.burst_size >= 1) => lreq'.allowed
                 /\ (s.born = now /\ s.calls < lim.burst_size) => lreq'.allowed
                 /\ (s.born = now /\ s.calls >= lim.burst_size) => ~lreq'.allowed
                 /\ (s.calls = lim.burst_size + 1 /\ s.latest = s.born
                       /\ (now - s.born) * lim.requests_per_minute >= 60) => lreq'.allowed]_vars

\* the call after the wait: burst_size calls granted and one denied in the
\* second the bucket was created, then 60 / requests_per_minute seconds of
\* silence, then a grant
C13_Witness ==
    \E e \in EndpointTypes, c \in Clients :
        /\ seen[e][c].calls = EndpointLimits[e].burst_size + 2
        /\ seen[e][c].prev = seen[e][c].born
        /\ (seen[e][c].latest - seen[e][c].born) * EndpointLimits[e].requests_per_minute = 60
        /\ lreq.type = e
        /\ lreq.client = c
        /\ lreq.allowed

\* C15: when the limiter fails while it checks a request, in
\* RateLimiter.is_allowed, in AdvancedRateLimiter.is_allowed or in
\* rate_limit_middleware, the request is not answered 429 but handed to the
\* handler; the two is_allowed report the request as allowed.
C15_FailOpen ==
    /\ lreq.path \in {"limiter_error", "advanced_error"} => lreq.allowed
    /\ lreq.path \in {"limiter_error", "advanced_error", "middleware_error"} =>
          (lreq.status # 429 /\ lreq.handled >= 1)

\* the middleware failed after the limiter had denied the request, which
\* reached the handler all the same
C15_Witness ==
    /\ lreq.path = "middleware_error"
    /\ ~lreq.allowed
    /\ lreq.handled = 1
    /\ \E e \in EndpointTypes, c \in Clients : buckets[e][c] # NoBucket /\ buckets[e][c].tokens = 0

\* The limiter denied the request and the middleware did not fail: no handler
\* call, status 429.
DeniedNotHandled ==
    (lreq.op = "request" /\ lreq.path = "deny") =>
        (~lreq.allowed /\ lreq.handled = 0 /\ lreq.status = 429)

\* C40: rate_limit_middleware hands each request to the downstream handler at
\* most once, also when the handler raises, and not at all when the limiter
\* denied the request, which is answered 429.
C40_HandledAtMostOnce ==
    /\ lreq.op = "request" => lreq.handled <= 1
    /\ DeniedNotHandled

\* C14: an is_allowed call takes exactly one token from the bucket of its
\* client when it grants and none when it denies (counted from the refilled
\* bucket), and leaves every other bucket, of another client or of another
\* endpoint class, as it was.
C14_OneTokenPerGrant ==
    [][\A e \in EndpointTypes, c \in Clients :
          CheckStep(e, c) =>
             LET full == Refill(BucketOf(buckets[e], c, EndpointLimits[e]), EndpointLimits[e]).tokens
             IN  /\ buckets'[e][c].tokens = full - (IF lreq'.allowed THEN TokenScale ELSE 0)
                 /\ \A e2 \in EndpointTypes, c2 \in Clients :
                       (e2 # e \/ c2 # c) => buckets'[e2][c2] = buckets[e2][c2]]_vars

\* a grant, then a denial for the same client whose partly refilled bucket is
\* left as it is, while the same client holds a bucket in the other endpoint
\* class
C14_Witness ==
    \E e, e2 \in EndpointTypes, c \in Clients :
        /\ e2 # e
        /\ lreq.type = e
        /\ lreq.client = c
        /\ ~lreq.allowed
        /\ lreq.op \in {"is_allowed", "request"}
        /\ buckets[e][c].tokens > 0
        /\ buckets[e2][c] # NoBucket

----------------------------------------------------------------------------
\* CacheService with failures inside its operations: each operation runs in
\* "try: ... except Exception" and turns an exception into its default result.

\* CacheService.get: "except Exception ... return None"
CacheGetFail(k) ==
    /\ StartCacheOp
    /\ last' = Returned("get", k, None, NoTtl, "failed", None, 0)
    /\ UNCHANGED <<cache, gosVars>>

\* CacheService.set: an exception after "self._check_memory_usage()" and
\* before the insert; "except Exception ... return False"
CacheSetFail(k, v, ttl, mem) ==
    /\ StartCacheOp
    /\ cache' = CheckMemoryUsage(cache, mem)
    /\ last' = Returned("set", k, v, ttl, "failed", "False", 0)
    /\ UNCHANGED gosVars

\* CacheService.delete: "except Exception ... return False"
CacheDeleteFail(k) ==
    /\ StartCacheOp
    /\ last' = Returned("delete", k, None, NoTtl, "failed", "False", 0)
    /\ UNCHANGED <<cache, gosVars>>

\* CacheService.clear: "except Exception" (logs, returns None)
CacheClearFail ==
    /\ StartCacheOp
    /\ last' = Returned("clear", None, None, NoTtl, "failed", None, 0)
    /\ UNCHANGED <<cache, gosVars>>

\* CacheService.cleanup_expired: "except Exception ... return 0"
CacheCleanupExpiredFail ==
    /\ StartCacheOp
    /\ last' = Returned("cleanup_expired", None, None, NoTtl, "failed", None, 0)
    /\ UNCHANGED <<cache, gosVars>>

\* CacheService.get_or_set whose get fails: get returns None, a miss
GosBeginGetFail(t, k, ttl) ==
    /\ gpc[t] = "idle"
    /\ \A u \in Threads : gpc[u] = "idle" => t <= u
    /\ StartCacheOp
    /\ last' = Returned("get", k, None, NoTtl, "failed", None, 0)
    /\ gpc' = [gpc EXCEPT ![t] = "factory"]
    /\ gkey' = [gkey EXCEPT ![t] = k]
    /\ gttl' = [gttl EXCEPT ![t] = ttl]
    /\ UNCHANGED cache

\* CacheService.get_or_set whose set fails: set returns False, which
\* get_or_set does not look at; "return value"
GosFactoryReturnSetFail(t, v, mem) ==
    /\ gpc[t] = "factory"
    /\ cache' = CheckMemoryUsage(cache, mem)
    /\ last' = Returned("get_or_set", gkey[t], v, gttl[t], "uncached", v, 1)
    /\ GosLeave(t)
    /\ UNCHANGED nops

NextFaulty ==
    /\ UNCHANGED <<now, resilVars, lruHistory, otherVars>>
    /\ \/ \E k \in Keys : nops < MaxOps /\ CacheGetFail(k)
       \/ \E k \in Keys, v \in Values, ttl \in TtlArgs, mem \in MemorySamples :
             nops < MaxOps /\ CacheSetFail(k, v, ttl, mem)
       \/ \E k \in Keys : nops < MaxOps /\ CacheDeleteFail(k)
       \/ nops < MaxOps /\ CacheClearFail
       \/ nops < MaxOps /\ CacheCleanupExpiredFail
       \/ \E t \in Threads, k \in Keys, ttl \in TtlArgs :
             nops < MaxOps /\ NoGosRunning /\ GosBeginGetFail(t, k, ttl)
       \/ \E t \in Threads, v \in Values, mem \in MemorySamples :
             GosFactoryReturnSetFail(t, v, mem)

SpecFaulty == Init /\ [][NextCache \/ NextFaulty \/ CacheTick]_vars

\* C11: no cache operation raises to its caller: whatever fails inside, get
\* returns a miss, set and delete return False, and get_or_set returns a value
\* its factory computed.
C11_NeverRaises ==
    /\ last.ret # "raised"
    /\ (last.path = "failed" /\ last.op = "get") => last.ret = None
    /\ (last.path = "failed" /\ last.op \in {"set", "delete"}) => last.ret = "False"

\* ---- TextChunker (src/utils/text_processing.py) ---------------------------
\* A text is a sequence of characters.  Three kinds of character matter to the
\* chunker: a letter, a sentence ending ([.!?]) and whitespace (\s).
Chars == {"a", ".", " "}
IsSpace(ch)          == ch = " "
IsSentenceEnding(ch) == ch = "."

RECURSIVE LStrip(_)
LStrip(s) == IF s # <<>> /\ IsSpace(Head(s)) THEN LStrip(Tail(s)) ELSE s

RECURSIVE RStrip(_)
RStrip(s) == IF s # <<>> /\ IsSpace(s[Len(s)]) THEN RStrip(SubSeq(s, 1, Len(s) - 1)) ELSE s

\* str.strip()
Strip(s) == RStrip(LStrip(s))

\* s[a:b] of Python, positions counted from 0
Slice(s, a, b) == SubSeq(s, a + 1, Min(b, Len(s)))

Count(s, ch) == Cardinality({i \in 1..Len(s) : s[i] = ch})

\* The combined content of a document (_combine_content returns it stripped):
\* the texts of at most MaxTextLen characters with at most MaxMarks sentence
\* endings and at most MaxMarks whitespace characters.
MaxMarks == MaxTextLen \div 6

RECURSIVE TextsOfLen(_)
TextsOfLen(n) ==
    IF n = 0 THEN {<<>>}
    ELSE {t \in {Append(s, ch) : s \in TextsOfLen(n - 1), ch \in Chars} :
            /\ ~IsSpace(t[1])
            /\ Count(t, ".") <= MaxMarks
            /\ Count(t, " ") <= MaxMarks}

Texts(n) == {t \in UNION {TextsOfLen(k) : k \in 0..n} : Strip(t) = t}

DocumentIds == {"doc"}
Entropy == {"r1", "r2"}      \* what the random source delivers during one call

\* uuid4().hex[:8]: the n-th identifier drawn from the entropy of the call
Uuid4Hex(entropy, n) == <<entropy, n>>

\* settings.chunk_size and settings.chunk_overlap as the environment sets them
SettingsChoices == {DefaultSettings, [chunk_size |-> DefaultChunkSize, chunk_overlap |-> 0]}

\* chunk_size or settings.chunk_size
OrDefault(arg, default) == IF arg = NoArg \/ arg[1] = 0 THEN default ELSE arg[1]

\* TextChunker.__init__: the three checks
ValidParameters(chunk_size, chunk_overlap) ==
    /\ ~(chunk_size <= 0)
    /\ ~(chunk_overlap < 0)
    /\ ~(chunk_overlap >= chunk_size)

\* TextChunker(chunk_size, chunk_overlap)
NewTextChunker(size_arg, overlap_arg) ==
    /\ chunker.status = "none"
    /\ LET chunk_size    == OrDefault(size_arg, settings.chunk_size)
           chunk_overlap == OrDefault(overlap_arg, settings.chunk_overlap)
       IN  chunker' =
             IF ValidParameters(chunk_size, chunk_overlap)
             THEN [status |-> "ready", given_size |-> size_arg, given_overlap |-> overlap_arg,
                   chunk_size |-> chunk_size, chunk_overlap |-> chunk_overlap]
             ELSE [status |-> "rejected", given_size |-> size_arg, given_overlap |-> overlap_arg,
                   chunk_size |-> 0, chunk_overlap |-> 0]
    /\ UNCHANGED <<settings, chunked, embedded>>

\* self.sentence_endings.finditer(s): where the last match of [.!?]+\s+ ends,
\* 0 when there is no match
LastSentenceEnd(s) ==
    LET ends == {j \in 2..Len(s) :
                    /\ IsSpace(s[j])
                    /\ (j = Len(s) \/ ~IsSpace(s[j + 1]))
                    /\ \E i \in 1..(j - 1) :
                          /\ IsSentenceEnding(s[i])
                          /\ \A m \in (i + 1)..j : IsSpace(s[m])}
    IN  IF ends = {} THEN 0 ELSE CHOOSE j \in ends : \A k \in ends : k <= j

\* int(len(chunk_text) * 0.8)
SearchStart(chunk_text) == (Len(chunk_text) * 4) \div 5

\* TextChunker._break_at_sentence_boundary
BreakAtSentenceBoundary(chunk_text, full_text, start, end) ==
    LET search_start == SearchStart(chunk_text)
        search_text  == Slice(chunk_text, search_start, Len(chunk_text))
        last_match   == LastSentenceEnd(search_text)
    IN  IF last_match > 0
        THEN Slice(full_text, start, start + search_start + last_match)
        ELSE chunk_text

NoPosition == -1        \* start_pos=None, end_pos=None

\* TextChunker._create_single_chunk
CreateSingleChunk(text, document_id, chunk_index, start_pos, end_pos, entropy) ==
    [chunk_id       |-> <<document_id, chunk_index, Uuid4Hex(entropy, chunk_index)>>,
     content        |-> Strip(text),
     chunk_index    |-> chunk_index,
     start_position |-> start_pos,
     end_position   |-> end_pos,
     char_count     |-> Len(text)]

\* a chunker that moves on from where the window started
NextStart_Stay(start, end, chunk_overlap) == start

\* start = end - self.chunk_overlap
NextStart(start, end, chunk_overlap) == end - chunk_overlap

\* TextChunker._create_chunks: the while loop, at most `rounds` rounds of it
RECURSIVE WindowLoop(_, _, _, _, _, _, _, _, _)
WindowLoop(text, chunk_size, chunk_overlap, document_id, entropy, start, chunk_index, chunks, rounds) ==
    IF ~(start < Len(text))
    THEN [chunks |-> chunks, start |-> start, chunk_index |-> chunk_index, finished |-> TRUE]
    ELSE IF rounds = 0
    THEN [chunks |-> chunks, start |-> start, chunk_index |-> chunk_index, finished |-> FALSE]
    ELSE
      LET end        == Min(start + chunk_size, Len(text))
          cut        == Slice(text, start, end)
          chunk_text == IF end < Len(text)
                        THEN BreakAtSentenceBoundary(cut, text, start, end)
                        ELSE cut
          chunk      == CreateSingleChunk(chunk_text, document_id, chunk_index, start, end, entropy)
          next       == NextStart(start, end, chunk_overlap)
      IN  IF next >= Len(text) - chunk_overlap
          THEN [chunks |-> Append(chunks, chunk), start |-> next,
                chunk_index |-> chunk_index + 1, finished |-> TRUE]
          ELSE WindowLoop(text, chunk_size, chunk_overlap, document_id, entropy,
                          next, chunk_index + 1, Append(chunks, chunk), rounds - 1)

\* The rounds a call is followed for: more than a loop that moves on by a
\* character in every round can make.
MaxRounds(text) == Len(text) + 1

\* TextChunker._create_chunks
CreateChunks(text, chunk_size, chunk_overlap, document_id, entropy) ==
    IF Len(text) <= chunk_size
    THEN [finished |-> TRUE,
          chunks |-> <<CreateSingleChunk(text, document_id, 0, NoPosition, NoPosition, entropy)>>]
    ELSE
      LET loop == WindowLoop(text, chunk_size, chunk_overlap, document_id, entropy,
                             0, 0, <<>>, MaxRounds(text))
          remaining_text == Slice(text, loop.start, Len(text))
      IN  [finished |-> loop.finished,
           chunks |->
             IF loop.finished /\ loop.start < Len(text) /\ Len(Strip(remaining_text)) > 0
             THEN Append(loop.chunks,
                         CreateSingleChunk(remaining_text, document_id, loop.chunk_index,
                                           loop.start, Len(text), entropy))
             ELSE loop.chunks]

\* TextChunker.chunk_document, on the combined content of the document: how it
\* ends and the chunks it returns
Chunked(text, document_id, entropy) ==
    IF Strip(text) = <<>>
    THEN [status |-> "error", text |-> text, chunks |-> <<>>]
    ELSE LET made == CreateChunks(text, chunker.chunk_size, chunker.chunk_overlap,
                                  document_id, entropy)
         IN  [status |-> IF made.finished THEN "ok" ELSE "running",
              text |-> text, chunks |-> made.chunks]

\* TextChunker.chunk_document
ChunkDocument(text, document_id, entropy) ==
    /\ chunker.status = "ready"
    /\ chunked' = Chunked(text, document_id, entropy)
    /\ UNCHANGED <<settings, chunker, embedded>>

\* The environment sets the settings before the process starts.
InitConfigured ==
    /\ now = RecoveryTimeout
    /\ InitBreaker
    /\ InitThreads
    /\ InitCache
    /\ InitLimiter
    /\ settings \in SettingsChoices
    /\ InitDocuments
    /\ InitServices

\* One document is processed in a run, once or again: any text of at most n
\* characters the first time, the same text after that.
Documents(n) == IF chunked.status = "none" THEN Texts(n) ELSE {chunked.text}

notChunkerVars == <<now, resilVars, cacheVars, limiterVars, serviceVars>>

\* The chunk sizes the chunker is constructed with: the small ones, and one in
\* whose last fifth a sentence ending, its whitespace and a further character fit.
ChunkSizes == (1..MaxSmallChunk) \cup {BreakChunkSize}

NextChunker ==
    /\ \/ \E chunk_size \in ChunkSizes : NewTextChunker(<<chunk_size>>, NoArg)
       \/ \E text \in Documents(MaxTextLen), d \in DocumentIds, e \in Entropy :
             ChunkDocument(text, d, e)
    /\ UNCHANGED notChunkerVars

SpecChunker == InitConfigured /\ [][NextChunker]_vars

\* The arguments a caller constructs a TextChunker with.
SizeArgs    == {NoArg} \cup {<<n>> : n \in (-1)..MaxSizeArg}
OverlapArgs == {NoArg} \cup {<<n>> : n \in (-1)..MaxSizeArg}

NextConstruct ==
    /\ \E size_arg \in SizeArgs, overlap_arg \in OverlapArgs : NewTextChunker(size_arg, overlap_arg)
    /\ UNCHANGED notChunkerVars

SpecConstruct == InitConfigured /\ [][NextConstruct]_vars

\* ---- claims about the chunker ---------------------------------------------
\* Where the text of a chunk starts in the combined content: the single chunk
\* of a short text records no position and starts at 0.
SpanStart(chunk) == IF chunk.start_position = NoPosition THEN 0 ELSE chunk.start_position

\* The position p of the text lies inside the text of the chunk.
Inside(p, chunk) == SpanStart(chunk) <= p /\ p < SpanStart(chunk) + chunk.char_count

\* C16: for every non-blank text and every valid (chunk_size, chunk_overlap),
\* every character position of the combined text lies inside the text of at
\* least one chunk, so consecutive chunks leave no gap.
C16_ChunksCoverText ==
    chunked.status = "ok" =>
        \A p \in 0..(Len(chunked.text) - 1) :
            \E i \in 1..Len(chunked.chunks) : Inside(p, chunked.chunks[i])

\* C18: for every text and every valid configuration the chunking loop
\* terminates, each window starts strictly after the start of the window before
\* it, and the number of chunks is at most the length of the text.
C18_LoopTerminates ==
    /\ chunked.status # "running"
    /\ chunked.status = "ok" =>
          /\ \A i \in 1..(Len(chunked.chunks) - 1) :
                SpanStart(chunked.chunks[i]) < SpanStart(chunked.chunks[i + 1])
          /\ Len(chunked.chunks) <= Len(chunked.text)

\* three windows with overlap, the first of them cut at a sentence boundary
C18_Witness ==
    /\ chunked.status = "ok"
    /\ chunker.chunk_overlap > 0
    /\ Len(chunked.chunks) >= 3
    /\ chunked.chunks[1].char_count < chunker.chunk_size

\* The chunks of the windowed path: the text is longer than chunk_size.
Windowed == chunked.status = "ok" /\ Len(chunked.text) > chunker.chunk_size

\* C38: for every chunk of the windowed path the recorded start_position and
\* end_position delimit exactly the chunk's text in the combined text: the
\* slice between them is the chunk's text before trimming, and char_count is
\* end_position - start_position.
C38_PositionsDelimitText ==
    Windowed =>
        \A i \in 1..Len(chunked.chunks) :
            LET chunk == chunked.chunks[i]
                span  == Slice(chunked.text, chunk.start_position, chunk.end_position)
            IN  /\ chunk.char_count = chunk.end_position - chunk.start_position
                /\ Len(span) = chunk.char_count
                /\ Strip(span) = chunk.content

\* The span of the chunk's text in the combined text, its end excluded.
SpanEnd(chunk) == SpanStart(chunk) + chunk.char_count

\* C39: for a text longer than chunk_size, no chunk's span is entirely
\* contained in the span of the chunk emitted before it: every chunk after the
\* first contributes new text.
C39_EveryChunkAddsText ==
    Windowed =>
        \A i \in 1..(Len(chunked.chunks) - 1) :
            ~(/\ SpanStart(chunked.chunks[i]) <= SpanStart(chunked.chunks[i + 1])
              /\ SpanEnd(chunked.chunks[i + 1]) <= SpanEnd(chunked.chunks[i]))

\* C39 without the chunk of the remaining text
WindowsAddText ==
    Windowed =>
        \A i \in 1..(Len(chunked.chunks) - 1) :
            chunked.chunks[i + 1].end_position > chunked.chunks[i].end_position
            \/ i + 1 = Len(chunked.chunks)

\* C17: chunking the same content with the same document_id, chunk_size and
\* chunk_overlap twice yields the same number of chunks, with identical text
\* boundaries and identical chunk_ids.
C17_SameChunksTwice ==
    [][(/\ chunked.status = "ok"
        /\ chunked'.status = "ok"
        /\ chunked'.text = chunked.text
        /\ chunker' = chunker)
       => /\ Len(chunked'.chunks) = Len(chunked.chunks)
          /\ \A i \in 1..Len(chunked.chunks) :
                /\ chunked'.chunks[i].start_position = chunked.chunks[i].start_position
                /\ chunked'.chunks[i].end_position = chunked.chunks[i].end_position
                /\ chunked'.chunks[i].char_count = chunked.chunks[i].char_count
                /\ chunked'.chunks[i].chunk_id = chunked.chunks[i].chunk_id]_vars

\* C19: TextChunker(chunk_size, chunk_overlap) with explicit values succeeds
\* exactly when chunk_size > 0 and 0 <= chunk_overlap < chunk_size, and then
\* chunks with exactly the values given; every other pair is rejected with an
\* error at construction.
C19_ConstructorContract ==
    (/\ chunker.status # "none"
     /\ chunker.given_size # NoArg
     /\ chunker.given_overlap # NoArg)
    => LET size    == chunker.given_size[1]
           overlap == chunker.given_overlap[1]
       IN  /\ chunker.status = "ready" <=> (size > 0 /\ 0 <= overlap /\ overlap < size)
           /\ chunker.status = "ready" =>
                 (chunker.chunk_size = size /\ chunker.chunk_overlap = overlap)

\* ---- EmbeddingService and DocumentProcessor._generate_embeddings ----------
MaxSeqLength == 512      \* self.max_seq_length
EmbeddingMemoryThreshold == 80  \* self._memory_threshold, in percent

\* ' '.join(processed.split()), on a stripped text: a run of whitespace becomes one space
RECURSIVE JoinSplit(_)
JoinSplit(s) ==
    IF Len(s) < 2 THEN s
    ELSE IF IsSpace(s[1]) /\ IsSpace(s[2]) THEN JoinSplit(Tail(s))
    ELSE <<s[1]>> \o JoinSplit(Tail(s))

\* EmbeddingService._preprocess_text
PreprocessText(text) ==
    IF text = <<>> THEN <<>>
    ELSE LET processed == Strip(text)
             truncated == IF Len(processed) > MaxSeqLength * 4
                          THEN Slice(processed, 0, MaxSeqLength * 4)
                          ELSE processed
         IN  Strip(JoinSplit(truncated))

\* self.model.encode(text): the vector of a text
Encode(text) == <<"vector", text>>

\* base_batch_size, chosen by the memory available
BaseBatchSizes == {2, 4}

\* EmbeddingService._get_optimal_batch_size
GetOptimalBatchSize(num_texts, base_batch_size) ==
    IF num_texts < 100 THEN Min(base_batch_size, num_texts)
    ELSE IF num_texts < 1000 THEN Min(base_batch_size * 2, num_texts)
    ELSE Min(base_batch_size * 4, num_texts)

\* EmbeddingService._generate_embeddings_optimized: batch after batch, stacked
RECURSIVE GenerateEmbeddingsOptimized(_, _)
GenerateEmbeddingsOptimized(texts, batch_size) ==
    IF texts = <<>> THEN <<>>
    ELSE LET n           == Min(batch_size, Len(texts))
             batch_texts == SubSeq(texts, 1, n)
         IN  [i \in 1..n |-> Encode(batch_texts[i])]
                \o GenerateEmbeddingsOptimized(SubSeq(texts, n + 1, Len(texts)), batch_size)

IsValidText(text) == Strip(text) # <<>>

\* valid_texts = [text for text in processed_texts if text.strip()]
ValidTexts(processed_texts) == SelectSeq(processed_texts, IsValidText)

\* EmbeddingService._check_memory_usage, on the readings of psutil before and
\* after gc.collect(): TRUE if it raises to its caller. The EmbeddingServiceError
\* of line 295 is raised inside the try and caught by the except of line 300,
\* which logs a warning; so is a failure of psutil.
EmbeddingCheckRaises(memory) ==
    LET too_high == memory[1] > EmbeddingMemoryThreshold /\ memory[2] > EmbeddingMemoryThreshold
        caught   == too_high
    IN  too_high /\ ~caught

\* the checks get_embeddings_batch makes: one before the first batch, one after
\* every fifth batch
MemoryChecks(num_texts, batch_size) == 1 + ((num_texts + batch_size - 1) \div batch_size) \div 5

\* EmbeddingService.get_embeddings_batch; memory is what psutil reads at its
\* checks, before and after gc.collect()
GetEmbeddingsBatch(texts, base_batch_size, memory) ==
    IF texts = <<>> THEN [status |-> "ok", vectors |-> <<>>, checked |-> <<>>]
    ELSE LET batch_size      == GetOptimalBatchSize(Len(texts), base_batch_size)
             processed_texts == [i \in 1..Len(texts) |-> PreprocessText(texts[i])]
             valid_texts     == ValidTexts(processed_texts)
         IN  IF valid_texts = <<>>
             THEN [status |-> "error", vectors |-> <<>>, checked |-> <<>>]
             ELSE IF EmbeddingCheckRaises(memory)
             THEN [status |-> "error", vectors |-> <<>>, checked |-> <<memory>>]
             ELSE [status |-> "ok",
                   vectors |-> GenerateEmbeddingsOptimized(valid_texts, batch_size),
                   checked |-> [i \in 1..MemoryChecks(Len(valid_texts), batch_size) |-> memory]]

NoVector == <<>>         \* DocumentChunk.embedding is None

\* for chunk, embedding in zip(chunks, embeddings): chunk.embedding = embedding
ZipEmbeddings(chunks, embeddings) ==
    [i \in 1..Len(chunks) |->
        [chunk_id |-> chunks[i].chunk_id, content |-> chunks[i].content,
         embedding |-> IF i <= Len(embeddings) THEN embeddings[i] ELSE NoVector]]

\* DocumentProcessor._generate_embeddings on chunks: how it ends and the chunks
\* with their vectors
Embedded(chunks, base_batch_size, memory) ==
    LET texts == [i \in 1..Len(chunks) |-> chunks[i].content]
        batch == GetEmbeddingsBatch(texts, base_batch_size, memory)
    IN  [status |-> batch.status, vectors |-> batch.vectors,
         chunks |-> ZipEmbeddings(chunks, batch.vectors), checked |-> batch.checked]

\* DocumentProcessor._generate_embeddings, on the chunks of the document
GenerateEmbeddings(base_batch_size, memory) ==
    /\ chunked.status = "ok"
    /\ embedded' = Embedded(chunked.chunks, base_batch_size, memory)
    /\ UNCHANGED <<settings, chunker, chunked>>

\* The model cannot be loaded or encode raises: EmbeddingServiceError, then
\* DocumentProcessingError.
GenerateEmbeddingsFails ==
    /\ chunked.status = "ok"
    /\ chunked.chunks # <<>>
    /\ embedded' = [status |-> "error", vectors |-> <<>>,
                    chunks |-> ZipEmbeddings(chunked.chunks, <<>>), checked |-> <<>>]
    /\ UNCHANGED <<settings, chunker, chunked>>

\* ---- the embedding model and its lock (EmbeddingService) -------------------
\* loader.model is 0 for None and the number of the SentenceTransformer
\* instance otherwise; instances are numbered in the order of construction.
\* A thread is at "load" when it is about to enter load_model, at "locked"
\* and "constructed" while it holds _model_lock, at "encode" when it is about
\* to call self.model.encode.
EmbeddingCalls == {"get_embedding", "get_embeddings_batch"}

\* get_embedding, get_embeddings_batch: the unlocked look at self.model
CallEmbedding(t, call) ==
    /\ loader.pc[t] = "idle"
    /\ loader.ncalls < MaxLoaderCalls
    /\ loader' = [loader EXCEPT !.pc[t] = IF loader.model = 0 THEN "load" ELSE "encode",
                                !.call[t] = call,
                                !.ncalls = @ + 1]

\* a caller that loads the model itself
CallLoadModel(t) ==
    /\ loader.pc[t] = "idle"
    /\ loader.ncalls < MaxLoaderCalls
    /\ loader' = [loader EXCEPT !.pc[t] = "load", !.call[t] = "load_model", !.ncalls = @ + 1]

\* load_model: with self._model_lock
AcquireModelLock(t) ==
    /\ loader.pc[t] = "load"
    /\ loader.lock = 0
    /\ loader' = [loader EXCEPT !.lock = t, !.pc[t] = "locked"]

\* where load_model's caller goes on when load_model has returned
AfterLoad(t) == IF loader.call[t] = "load_model" THEN "idle" ELSE "encode"

\* a load_model that never looks whether the model is there
ModelLoaded_Never == FALSE

\* load_model: self.model is not None
ModelLoaded == loader.model # 0

\* load_model under the lock: return if the model is there, otherwise construct
\* the SentenceTransformer, which returns or raises
ConstructModel(t, raises) ==
    /\ loader.pc[t] = "locked"
    /\ IF ModelLoaded
       THEN loader' = [loader EXCEPT !.lock = 0, !.pc[t] = AfterLoad(t),
                                     !.raced = @ \/ loader.call[t] # "load_model"]
       ELSE IF raises
       THEN loader' = [loader EXCEPT !.lock = 0, !.pc[t] = "idle"]
       ELSE loader' = [loader EXCEPT !.model = loader.built + 1, !.built = @ + 1,
                                     !.pc[t] = "constructed"]

\* load_model under the lock: get_sentence_embedding_dimension, which returns or
\* raises, then the lock is released
GetDimension(t, raises) ==
    /\ loader.pc[t] = "constructed"
    /\ IF raises
       THEN loader' = [loader EXCEPT !.lock = 0, !.pc[t] = "idle"]
       ELSE loader' = [loader EXCEPT !.embedding_dimension = TRUE, !.lock = 0,
                                     !.pc[t] = AfterLoad(t)]

\* self.model.encode: the instance the call computes with
EncodeWithModel(t) ==
    /\ loader.pc[t] = "encode"
    /\ loader' = [loader EXCEPT !.used[t] = loader.model, !.pc[t] = "idle"]

NextLoader ==
    /\ \E t \in Threads :
          \/ \E call \in EmbeddingCalls : CallEmbedding(t, call)
          \/ CallLoadModel(t)
          \/ AcquireModelLock(t)
          \/ \E raises \in BOOLEAN : ConstructModel(t, raises)
          \/ \E raises \in BOOLEAN : GetDimension(t, raises)
          \/ EncodeWithModel(t)
    /\ UNCHANGED <<now, resilVars, cacheVars, limiterVars, chunkerVars, store, searched,
                   answered, asideVars, processed_doc>>

SpecLoader == Init /\ [][NextLoader]_vars

\* C21: however many threads call get_embedding or get_embeddings_batch before
\* the model is loaded, the SentenceTransformer is constructed at most once, all
\* callers compute with that one instance, and a load_model that runs after a
\* successful load changes nothing.
C21_ModelLoadedOnce ==
    [][/\ loader'.built <= 1
       /\ \A t \in Threads : loader'.used[t] \in {0, loader'.model}
       /\ (loader.model # 0 /\ loader.embedding_dimension) =>
             /\ loader'.model = loader.model
             /\ loader'.embedding_dimension = loader.embedding_dimension
             /\ loader'.built = loader.built]_vars

\* Two threads found no model at the unlocked look, one of them built it, the
\* other found it under the lock, and both have computed with it.
C21_Witness ==
    /\ loader.raced
    /\ loader.built = 1
    /\ \A t \in Threads : loader.used[t] = loader.model


\* ---- the index (SearchService.ensure_index_exists, index_documents) ---------
\* store.exists and store.docs are the cluster's: whether the index is there,
\* and its records, each with the _id it is stored under. A thread is at
\* "exists" before client.indices.exists, at "create" before
\* client.indices.create, at "bulk" before client.bulk. The cluster answers
\* every request; index_documents' argument is drawn where it is first used.
ChunkIds == {"c1", "c2"}
Vectors  == {"v1", "v2"}
IndexDocs == [chunk_id : ChunkIds, embedding : Vectors]
IndexBatches == {<<>>} \cup {<<d>> : d \in IndexDocs} \cup {<<d, e>> : d, e \in IndexDocs}

\* ensure_index_exists, index_documents: the call starts
CallSearchService(t, call) ==
    /\ store.pc[t] = "idle"
    /\ store.ncalls < MaxIndexCalls
    /\ store' = [store EXCEPT !.pc[t] = "exists", !.call[t] = call, !.ret[t] = StoreReturn("none", 0, 0),
                              !.ncalls = @ + 1]

\* where the caller of ensure_index_exists goes on when it has returned True
EnsureReturnsTrue(t) ==
    IF store.call[t] = "index_documents"
    THEN [store EXCEPT !.pc[t] = "bulk"]
    ELSE [store EXCEPT !.pc[t] = "idle", !.ret[t] = StoreReturn("True", 0, 0)]

\* ensure_index_exists: client.indices.exists
IndicesExists(t) ==
    /\ store.pc[t] = "exists"
    /\ store' = IF store.exists THEN EnsureReturnsTrue(t) ELSE [store EXCEPT !.pc[t] = "create"]

\* create_index: client.indices.create, which the cluster refuses for an index
\* that exists; the error leaves create_index, ensure_index_exists and
\* index_documents as a SearchServiceError
IndicesCreate(t) ==
    /\ store.pc[t] = "create"
    /\ store' = IF store.exists
                THEN [store EXCEPT !.pc[t] = "idle", !.ret[t] = StoreReturn("SearchServiceError", 0, 0)]
                ELSE [EnsureReturnsTrue(t) EXCEPT !.exists = TRUE, !.created = @ + 1]

\* a bulk action without the chunk_id as _id: the cluster makes up an _id
BulkId_Auto(doc) == <<"auto", doc>>

\* the _id of the bulk action: doc.get('chunk_id')
BulkId(doc) == doc.chunk_id

\* the cluster executes one index action: the record stored under this _id is
\* replaced, or the item fails and the index is as before
IndexAction(docs, doc, fails) ==
    IF fails THEN docs
    ELSE {r \in docs : r._id # BulkId(doc)} \cup {[_id |-> BulkId(doc), source |-> doc]}

\* client.bulk: the actions in the order of the request
RECURSIVE Bulk(_, _, _, _)
Bulk(docs, documents, failed, i) ==
    IF i > Len(documents) THEN docs
    ELSE Bulk(IndexAction(docs, documents[i], i \in failed), documents, failed, i + 1)

\* index_documents after ensure_index_exists: the bulk request and the counts
IndexDocuments(t, documents, failed) ==
    /\ store.pc[t] = "bulk"
    /\ store' = [store EXCEPT
          !.docs = Bulk(@, documents, failed, 1),
          !.last = [documents |-> documents, failed |-> failed],
          !.pc[t] = "idle",
          !.ret[t] = StoreReturn("result", Len(documents) - Cardinality(failed),
                                 Cardinality(failed))]

NextStore ==
    /\ \E t \in Threads :
          \/ \E call \in {"ensure_index_exists", "index_documents"} : CallSearchService(t, call)
          \/ IndicesExists(t)
          \/ IndicesCreate(t)
          \/ \E documents \in IndexBatches, failed \in SUBSET (1..2) :
                /\ failed \subseteq 1..Len(documents)
                /\ IndexDocuments(t, documents, failed)
    /\ UNCHANGED <<now, asideVars, resilVars, cacheVars, limiterVars, chunkerVars, loader,
                   searched, answered, processed_doc>>

SpecStore == Init /\ [][NextStore]_vars

\* the record the index holds for a chunk_id, as a set
RecordsOf(docs, chunk_id) == {r \in docs : r.source.chunk_id = chunk_id}

\* the last document of a request with this chunk_id whose action succeeded
LastIndexed(documents, failed, chunk_id) ==
    LET ok == {i \in 1..Len(documents) : documents[i].chunk_id = chunk_id /\ i \notin failed}
    IN  IF ok = {} THEN {} ELSE {documents[CHOOSE i \in ok : \A j \in ok : j <= i]}

\* C23: indexing is an upsert keyed by chunk_id: the index holds at most one
\* record per chunk_id; indexing records the index already holds leaves it as it
\* was; indexing a record with another vector for a chunk_id the index holds
\* replaces the record.
C23_UpsertByChunkId ==
    [][store'.docs # store.docs \/ store'.last # store.last =>
          /\ \A c \in ChunkIds : Cardinality(RecordsOf(store'.docs, c)) <= 1
          /\ \A c \in ChunkIds :
                LET new == LastIndexed(store'.last.documents, store'.last.failed, c)
                IN  {r.source : r \in RecordsOf(store'.docs, c)} =
                       IF new = {} THEN {r.source : r \in RecordsOf(store.docs, c)} ELSE new]_vars

\* An earlier request has indexed two records of chunk c1; the last request
\* indexed c1 with the vector v2, and the index holds that one record only.
C23_Witness ==
    /\ store.last = [documents |-> <<[chunk_id |-> "c1", embedding |-> "v2"]>>, failed |-> {}]
    /\ \E t \in Threads : store.ret[t] = StoreReturn("result", 2, 0)
    /\ {r.source : r \in store.docs} = {[chunk_id |-> "c1", embedding |-> "v2"]}


\* C30: ensure_index_exists is idempotent: however often it is called, also by
\* ingestion requests that race on a missing index, the index is created at
\* most once and every call returns True, none raises.
C30_EnsureIndexIdempotent ==
    /\ store.created <= 1
    /\ \A t \in Threads : store.ret[t].kind # "SearchServiceError"


\* ---- the cached search (SearchService.hybrid_search) -----------------------
\* json.dumps of a number: "5" for 5, "0" for 0, "0.0" for 0.0
JsonDumps(x) == IF x.type = "int" THEN <<x.value>> ELSE <<x.value, ".", 0>>

\* hash(query_embedding.tobytes()): one of finitely many values, so that
\* vectors share a hash
EmbeddingHash(query_embedding) == query_embedding[1] % HashRange

\* a key that leaves the keyword arguments out
GenerateKey_NoKwargs(args, kwargs) == <<"md5", args>>

\* CacheService.generate_key: the md5 digest of json.dumps({'args': args,
\* 'kwargs': kwargs}); no two of the strings of the model share a digest
GenerateKey(args, kwargs) == <<"md5", args, kwargs>>

\* hybrid_search: cache_key
SearchKey(a) ==
    GenerateKey(<<"search", a.query, a.search_type, JsonDumps(a.top_k), JsonDumps(a.min_score)>>,
                <<"embedding_hash", EmbeddingHash(a.query_embedding)>>)

\* what the search backend does with a request: it returns results or raises
BackendOutcomes ==
    {[status |-> "ok", results |-> <<>>], [status |-> "ok", results |-> <<"d1">>],
     [status |-> "error", results |-> <<>>]}

\* SearchService.hybrid_search on the cache c: the cache it leaves, whether it
\* queried the backend, and what it returns or that it raises
Search(c, a, backend, mem) ==
    LET cache_key == SearchKey(a)
    IN  IF Live(c, cache_key)
        THEN [cache |-> GetCache(c, cache_key), queried |-> FALSE, status |-> "ok",
              results |-> ItemOf(c, cache_key).value]
        ELSE IF backend.status = "error"
        THEN [cache |-> GetCache(c, cache_key), queried |-> TRUE, status |-> "error",
              results |-> <<>>]
        ELSE [cache |-> SetCache(GetCache(c, cache_key), cache_key, backend.results,
                                 <<SearchTtl>>, mem),
              queried |-> TRUE, status |-> "ok", results |-> backend.results]

\* SearchService.hybrid_search
HybridSearch(a, backend, mem) ==
    /\ searched.n < MaxSearches
    /\ LET s == Search(cache, a, backend, mem)
       IN  /\ cache' = s.cache
           /\ searched' = [n |-> searched.n + 1, args |-> a, queried |-> s.queried,
                           status |-> s.status, results |-> s.results,
                           stored |-> IF s.queried /\ s.status = "ok"
                                      THEN [searched.stored EXCEPT
                                               ![a] = <<[results |-> s.results, at |-> now]>>]
                                      ELSE searched.stored]
    /\ UNCHANGED <<gosVars, nops, last, lruHistory>>

\* The first call of a run is the one the others are measured against.
SearchCalls == IF searched.n = 0 THEN {BaseSearch} ELSE SearchArgs

SearchTick ==
    /\ Tick
    /\ now < MaxSearchTime
    /\ UNCHANGED <<resilVars, cacheVars, otherVars>>

NextSearch ==
    \/ /\ \E a \in SearchCalls, backend \in BackendOutcomes, mem \in MemorySamples :
             HybridSearch(a, backend, mem)
       /\ UNCHANGED <<now, asideVars, resilVars, limiterVars, chunkerVars, loader, store,
                      answered, processed_doc>>
    \/ SearchTick

SpecSearch == Init /\ [][NextSearch]_vars

\* two calls are equal in every component, as Python compares them
PyEqual(a, b) ==
    /\ a.query = b.query
    /\ a.search_type = b.search_type
    /\ a.top_k.value = b.top_k.value
    /\ a.min_score.value = b.min_score.value
    /\ a.query_embedding = b.query_embedding

\* two calls have the same text, type, rendering of top_k and of min_score,
\* and vectors of the same hash
SameComponents(a, b) ==
    /\ a.query = b.query
    /\ a.search_type = b.search_type
    /\ JsonDumps(a.top_k) = JsonDumps(b.top_k)
    /\ JsonDumps(a.min_score) = JsonDumps(b.min_score)
    /\ EmbeddingHash(a.query_embedding) = EmbeddingHash(b.query_embedding)

\* C24 as stated: of two hybrid_search calls with equal query text, search type,
\* top_k, min_score and vector, the second within the TTL of the first, the
\* second returns the results of the first and does not query the backend; a
\* call that differs in a component is not served from that entry.
C24_AsStated ==
    [][searched'.n # searched.n =>
          /\ \A b \in SearchArgs :
                (/\ PyEqual(searched'.args, b)
                 /\ searched.stored[b] # <<>>
                 /\ now - searched.stored[b][1].at <= SearchTtl)
                => /\ ~searched'.queried
                   /\ searched'.results = searched.stored[b][1].results
          /\ ~searched'.queried =>
                \E b \in SearchArgs :
                   /\ PyEqual(searched'.args, b)
                   /\ searched.stored[b] # <<>>
                   /\ searched'.results = searched.stored[b][1].results]_vars

\* C24: a hybrid_search call that finds in the cache an entry under its key that
\* has not expired returns, without querying the backend, the results that a
\* call with the same text, type, rendering of top_k and min_score and the same
\* hash of the vector stored within the TTL; a call that differs in one of these
\* is not served from that entry.
C24_CachedSearch ==
    [][searched'.n # searched.n =>
          LET a == searched'.args
              served(b) == /\ SameComponents(a, b)
                           /\ searched.stored[b] # <<>>
                           /\ searched'.results = searched.stored[b][1].results
                           /\ now - searched.stored[b][1].at <= SearchTtl
          IN  /\ Live(cache, SearchKey(a)) =>
                    ~searched'.queried /\ \E b \in SearchArgs : served(b)
              /\ ~searched'.queried => \E b \in SearchArgs : served(b)]_vars

\* A call was served from the cache, some time after a call with the same
\* arguments had stored the results.
C24_Witness ==
    /\ searched.status = "ok"
    /\ ~searched.queried
    /\ searched.stored[searched.args] # <<>>
    /\ searched.stored[searched.args][1].at < now
    /\ searched.results = <<"d1">>


\* ---- the query pipeline (RAGService.query_documents) -----------------------
Questions == {"q1", "q2"}

\* embedding_service.get_embedding(question).tolist(), as an array again
QueryEmbedding(question) == IF question = "q1" THEN <<1>> ELSE <<2>>

\* _search_documents: the arguments it hands to hybrid_search
QueryArgs(question) ==
    [BaseSearch EXCEPT !.query = question, !.query_embedding = QueryEmbedding(question)]

\* GPTService.generate_answer: cache_key
GptKey(question, use_rag, sources) ==
    GenerateKey(<<"gpt_answer", question, use_rag, Len(sources)>>, <<>>)

\* the completion the model writes for a prompt: the RAG prompt if there are
\* sources, the direct prompt otherwise
Completion(question, use_rag, sources) ==
    IF use_rag /\ sources # <<>> THEN <<"completion", question, sources>>
    ELSE <<"completion", question>>

\* GPTService.generate_answer on the cache c: the cache it leaves and the
\* response it returns, or that it raises; gpt is what the completion request does
GenerateAnswer(c, question, use_rag, sources, gpt, mem) ==
    LET cache_key == GptKey(question, use_rag, sources)
        c1        == IF use_rag THEN c ELSE GetCache(c, cache_key)
        response  == QueryResponse(question, Completion(question, use_rag, sources),
                                   sources, <<>>)
    IN  IF ~use_rag /\ Live(c, cache_key)
        THEN [cache |-> c1, status |-> "ok", response |-> ItemOf(c, cache_key).value]
        ELSE IF gpt = "raises"
        THEN [cache |-> c1, status |-> "error", response |-> response]
        ELSE [cache |-> IF use_rag THEN c1 ELSE SetCache(c1, cache_key, response, <<GptTtl>>, mem),
              status |-> "ok", response |-> response]

\* a pipeline that searches whenever RAG is asked for
ShouldSearch_NoVector(use_rag, embedding) == use_rag

\* query_documents: "if query_request.use_rag and query_embedding is not None"
ShouldSearch(use_rag, embedding) == use_rag /\ embedding # "None"

\* RAGService._search_documents on the cache c: the cache it leaves, how the
\* search ended and the sources it returns
SearchDocuments(c, question, backend, mem) ==
    LET s == Search(c, QueryArgs(question), backend, mem)
    IN  [cache |-> s.cache, status |-> s.status,
         sources |-> IF s.status = "error" THEN <<>> ELSE s.results]

\* query_documents' response when _generate_answer has returned or raised
QueryResponseOf(question, answer) ==
    IF answer.status = "error"
    THEN QueryResponse(question, <<"I apologize", "Failed to generate answer">>, <<>>,
                       <<"Failed to generate answer">>)
    ELSE answer.response

\* RAGService.query_documents; embed, backend and gpt are what get_embedding,
\* the search backend and the completion request do
QueryDocuments(question, use_rag, embed, backend, gpt, mem) ==
    /\ answered.n < MaxQueries
    /\ LET embedding == IF ~use_rag THEN "None"
                        ELSE IF embed = "raises" THEN "None" ELSE "vector"
           calls1    == IF use_rag THEN <<"embed">> ELSE <<>>
           searches  == ShouldSearch(use_rag, embedding)
           found     == IF searches THEN SearchDocuments(cache, question, backend, mem)
                        ELSE [cache |-> cache, status |-> "none", sources |-> <<>>]
           calls2    == IF searches THEN Append(calls1, "search") ELSE calls1
           answer    == GenerateAnswer(found.cache, question, use_rag, found.sources, gpt, mem)
       IN  /\ cache' = answer.cache
           /\ answered' = [n |-> answered.n + 1, question |-> question, use_rag |-> use_rag,
                           calls |-> Append(calls2, "generate"),
                           embedding |-> IF use_rag THEN embed ELSE "none",
                           search |-> found.status, gpt |-> answer.status,
                           given |-> found.sources,
                           response |-> QueryResponseOf(question, answer)]
    /\ UNCHANGED <<gosVars, nops, last, lruHistory>>

NextQuery ==
    \/ /\ \E question \in Questions, use_rag \in BOOLEAN, embed \in {"vector", "raises"},
            backend \in BackendOutcomes, gpt \in {"answers", "raises"}, mem \in MemorySamples :
             QueryDocuments(question, use_rag, embed, backend, gpt, mem)
       /\ UNCHANGED <<now, asideVars, resilVars, limiterVars, chunkerVars, loader, store,
                      searched, processed_doc>>
    \/ SearchTick

SpecQuery == Init /\ [][NextQuery]_vars

\* C25: a query whose search step fails gets a response that the caller can
\* tell apart from the response to a query whose search succeeded and found
\* nothing.
C25_SearchFailureVisible ==
    answered.search = "error" =>
       answered.response #
          QueryResponseOf(answered.question,
                  [status |-> answered.gpt,
                   response |-> QueryResponse(answered.question,
                                              Completion(answered.question, TRUE, <<>>),
                                              <<>>, <<>>)])

\* C26: query_documents runs embed, search, generate in this order; without RAG
\* neither embedding nor search is invoked; with RAG the search is invoked only
\* if the embedding produced a vector; the answer generator is invoked exactly
\* once in every case, with no sources when embedding or search failed.
C26_PipelineOrder ==
    answered.n > 0 =>
       /\ answered.calls \in {<<"generate">>, <<"embed", "generate">>,
                              <<"embed", "search", "generate">>}
       /\ ~answered.use_rag => answered.calls = <<"generate">>
       /\ answered.use_rag => answered.calls[1] = "embed"
       /\ (\E i \in 1..Len(answered.calls) : answered.calls[i] = "search")
             <=> (answered.use_rag /\ answered.embedding = "vector")
       /\ (answered.embedding = "raises" \/ answered.search = "error") => answered.given = <<>>

\* With RAG asked for, the embedding failed: the search was skipped and the
\* generator ran with no sources.
C26_Witness ==
    /\ answered.use_rag
    /\ answered.embedding = "raises"
    /\ answered.calls = <<"embed", "generate">>
    /\ answered.given = <<>>
    /\ answered.gpt = "ok"


\* ---- the ingestion pipeline (DocumentProcessor.process_document) -----------
\* index_documents as process_document sees it, one caller at a time: the index
\* is created if it is missing; the cluster then executes the bulk request,
\* refuses all of its items, or cannot be reached
IndexChunks(chunks, index) ==
    LET documents == [i \in 1..Len(chunks) |-> chunks[i]]
        failed    == IF index = "ok" THEN {} ELSE 1..Len(documents)
    IN  IF index = "raises"
        THEN [store |-> store, ret |-> StoreReturn("SearchServiceError", 0, 0)]
        ELSE [store |-> [store EXCEPT !.exists = TRUE,
                                      !.created = IF store.exists THEN @ ELSE @ + 1,
                                      !.docs = Bulk(@, documents, failed, 1),
                                      !.last = [documents |-> documents, failed |-> failed]],
              ret |-> StoreReturn("result", Len(documents) - Cardinality(failed),
                                  Cardinality(failed))]

\* DocumentProcessor.process_document on a file whose content is text: given_id
\* is the document_id argument, file_exists whether the file can be read, load
\* what the loader and the metadata step do, index what the cluster does.
\* (A run sends one document through the whole pipeline.)
ProcessDocument(text, given_id, file_exists, load, index, entropy, base_batch_size, memory) ==
    /\ chunker.status = "ready"
    /\ processed_doc.outcome = "none"
    /\ LET document_id == "doc"
           chunks      == Chunked(text, document_id, entropy)
           vectors     == Embedded(chunks.chunks, base_batch_size, memory)
           indexing    == IndexChunks(vectors.chunks, index)
           none        == StoreReturn("none", 0, 0)
           Failed(step, cause) == ProcessedDocument("returned", "FAILED", <<>>, <<cause>>, step, none)
       IN  IF given_id = NoArg /\ ~file_exists
           THEN /\ processed_doc' = ProcessedDocument("raised", "none", <<>>, <<>>, "read", none)
                /\ UNCHANGED <<chunked, embedded, store>>
           ELSE IF ~file_exists \/ load # "ok" \/ text = <<>>
           THEN /\ processed_doc' = Failed("load", "Failed to load document")
                /\ UNCHANGED <<chunked, embedded, store>>
           ELSE IF chunks.status # "ok"
           THEN /\ processed_doc' = Failed("chunk", "Failed to chunk document")
                /\ chunked' = chunks
                /\ UNCHANGED <<embedded, store>>
           ELSE IF vectors.status # "ok"
           THEN /\ processed_doc' = Failed("embed", "Failed to generate embeddings")
                /\ chunked' = chunks
                /\ embedded' = vectors
                /\ UNCHANGED store
           ELSE /\ chunked' = chunks
                /\ embedded' = vectors
                /\ store' = indexing.store
                /\ processed_doc' =
                      IF indexing.ret.kind = "SearchServiceError"
                      THEN Failed("index", "Failed to index documents")
                      ELSE ProcessedDocument("returned", "COMPLETED", vectors.chunks, <<>>,
                                             "none", indexing.ret)
    /\ UNCHANGED <<settings, chunker>>

NextIngest ==
    /\ \/ \E chunk_size \in 1..MaxSmallChunk : NewTextChunker(<<chunk_size>>, NoArg)
       \/ \E text \in Documents(MaxIngestLen), d \in DocumentIds, e \in Entropy :
             ChunkDocument(text, d, e)
       \/ \E base_batch_size \in BaseBatchSizes, memory \in MemorySamples \X MemorySamples :
             GenerateEmbeddings(base_batch_size, memory)
       \/ GenerateEmbeddingsFails
    /\ UNCHANGED notChunkerVars

NextProcess ==
    /\ \/ /\ \E chunk_size \in 1..MaxSmallChunk : NewTextChunker(<<chunk_size>>, NoArg)
          /\ UNCHANGED <<store, processed_doc>>
       \/ \E text \in Texts(MaxIngestLen), given_id \in {NoArg, <<"doc">>},
             file_exists \in BOOLEAN, load \in {"ok", "raises"},
             index \in {"ok", "refused", "raises"}, e \in Entropy,
             base_batch_size \in BaseBatchSizes, memory \in MemorySamples \X MemorySamples :
             ProcessDocument(text, given_id, file_exists, load, index, e, base_batch_size, memory)
    /\ UNCHANGED <<now, asideVars, resilVars, cacheVars, limiterVars, loader, searched, answered>>

SpecProcess == InitConfigured /\ [][NextProcess]_vars

SpecIngest == InitConfigured /\ [][NextIngest]_vars

\* C20: get_embeddings_batch returns exactly one vector per input text, in
\* input order; a text that is empty after preprocessing makes the call fail
\* instead of being dropped; hence every chunk is indexed with the vector of its
\* own text.
C20_OneVectorPerText ==
    /\ embedded.status = "ok" =>
          /\ Len(embedded.vectors) = Len(embedded.chunks)
          /\ \A i \in 1..Len(embedded.chunks) :
                /\ i <= Len(embedded.vectors)
                /\ embedded.vectors[i] = Encode(PreprocessText(embedded.chunks[i].content))
                /\ embedded.chunks[i].embedding = Encode(PreprocessText(embedded.chunks[i].content))
    /\ (/\ embedded.status # "none"
        /\ \E i \in 1..Len(embedded.chunks) : ~IsValidText(PreprocessText(embedded.chunks[i].content)))
       => embedded.status = "error"


\* C22: when the memory in use is above the threshold at a check and still
\* above it after the collection pass, the embedding call in progress fails
\* with an embedding error and processes no further batch.
C22_HighMemoryFailsCall ==
    (\E i \in 1..Len(embedded.checked) :
        /\ embedded.checked[i][1] > EmbeddingMemoryThreshold
        /\ embedded.checked[i][2] > EmbeddingMemoryThreshold)
    => embedded.status = "error" /\ embedded.vectors = <<>>

\* C27: process_document reports the failure of a pipeline step as a result and
\* not as an exception: when loading, chunking, embedding or indexing fails it
\* returns a ProcessedDocument with status FAILED, chunks_count 0, no chunks and
\* an error message that carries the cause.
C27_FailureIsAResult ==
    (processed_doc.failed # "none" \/ ~processed_doc.indexing.success) =>
       /\ processed_doc.outcome = "returned"
       /\ processed_doc.status = "FAILED"
       /\ processed_doc.chunks_count = 0
       /\ processed_doc.chunks = <<>>
       /\ processed_doc.error_message # <<>>


\* C36: a ProcessedDocument with status COMPLETED and chunks_count n means that
\* all n chunks were indexed: the result of index_documents had failed_count 0
\* and indexed_count n.
C36_CompletedMeansIndexed ==
    processed_doc.status = "COMPLETED" =>
       /\ processed_doc.indexing.failed_count = 0
       /\ processed_doc.indexing.indexed_count = processed_doc.chunks_count


\* ---- the cache under memory pressure (CacheService.set) --------------------
\* A cache with room: its max_size is above what the runs put into it, as the
\* default of 1000 is for a cache that holds a few entries.
RoomyMaxSize == MaxPressureLen + MaxPressureSets

\* the cache after earlier sets of the keys 1..n, in this order
FilledCache(n) == [i \in 1..n |-> [key |-> i, value |-> "v1", expires_at |-> now + DefaultTtl]]

InitPressure ==
    /\ now = RecoveryTimeout
    /\ InitBreaker
    /\ InitThreads
    /\ gpc = [t \in Threads |-> "idle"]
    /\ gkey = [t \in Threads |-> None]
    /\ gttl = [t \in Threads |-> NoTtl]
    /\ nops = 0
    /\ last = NoOp
    /\ recency = <<>>
    /\ inserted = <<>>
    /\ usedBy = [k \in Keys |-> "none"]
    /\ pressed = FALSE
    /\ \E n \in 0..MaxPressureLen : cache = FilledCache(n)
    /\ InitLimiter
    /\ InitChunker
    /\ InitServices

\* "while len(self._cache) > self.max_size: self._evict_oldest()"
RECURSIVE EvictDownTo(_, _)
EvictDownTo(c, max_size) ==
    IF Len(c) > max_size /\ c # <<>> THEN EvictDownTo(EvictOldest(c), max_size) ELSE c

\* CacheService.set on a cache with room
RoomySet(k, v, ttl, mem) ==
    /\ nops < MaxPressureSets
    /\ nops' = nops + 1
    /\ cache' = EvictDownTo(Insert(cache, k, v, ttl, mem), RoomyMaxSize)
    /\ sampled' = mem
    /\ last' = Returned("set", k, v, ttl, "stored", "True", 0)
    /\ UNCHANGED <<gosVars, lruHistory>>

NextPressure ==
    /\ \E k \in 1..(Len(cache) + 1), mem \in MemorySamples : RoomySet(k, "v1", NoTtl, mem)
    /\ UNCHANGED <<now, resilVars, limiterVars, chunkerVars, loader, store, searched, answered,
                   rate_limiter, deleted, processed_doc>>

SpecPressure == InitPressure /\ [][NextPressure]_vars

\* the entries a set leaves of those it found, the key it stores apart
Kept(c, k) == Without(c, k)

\* C28: when the memory in use is above the threshold at the start of a set,
\* exactly max(1, n div 4) of the n entries (none of no entries) are evicted,
\* the least recently used first, before the insert, also when the cache is not
\* full; at or below the threshold the set evicts nothing for memory reasons.
C28_MemoryPressureEviction ==
    [][nops' # nops =>
          LET n == Len(cache)
              k == last'.key
              evict_count == IF n = 0 THEN 0 ELSE Max(1, n \div 4)
          IN  /\ sampled' > MemoryThreshold =>
                    Kept(cache', k) = Kept(SubSeq(cache, evict_count + 1, n), k)
              /\ sampled' <= MemoryThreshold => Kept(cache', k) = Kept(cache, k)
              /\ Has(cache', k)]_vars

\* A set found 8 entries in a cache with room for more and memory above the
\* threshold: the two least recently used are gone.
C28_Witness ==
    /\ nops = 1
    /\ sampled > MemoryThreshold
    /\ KeysOf(cache) = 3..9


\* ---- the rate limiter over a run of the service ----------------------------
\* The server answers requests through rate_limit_middleware while the clock
\* runs; cleanup_old_buckets is a method a caller may invoke, and nothing in
\* the service invokes it: no timer, no startup hook, no request path.
NextService ==
    \/ /\ UNCHANGED <<now, resilVars, cacheVars, chunkerVars, serviceVars>>
       /\ nreqs < MaxMiddlewareRequests
       /\ \/ \E p \in Paths, c \in Clients : RateLimitMiddleware(p, c, "ok")
          \/ \E e \in EndpointTypes : CleanupOldBuckets(e)
    \/ LimiterTick

\* The clock runs on its own; requests and calls arrive or do not.
SpecService == Init /\ [][NextService]_vars /\ WF_vars(LimiterTick)

\* a step in which cleanup_old_buckets ran on the limiter of endpoint type e
CleanupStep(e) ==
    /\ nreqs' = nreqs + 1
    /\ lreq'.op = "cleanup_old_buckets"
    /\ lreq'.type = e

\* what a cleanup_old_buckets call does: it removes exactly the buckets with
\* now - last_refill > max_age, returns their count, leaves the others alone
CleanupRemovesExactlyTheStale ==
    [][\A e \in EndpointTypes :
          CleanupStep(e) =>
             /\ \A c \in Clients :
                   buckets'[e][c] = IF Stale(buckets[e][c]) THEN NoBucket ELSE buckets[e][c]
             /\ \A d \in EndpointTypes \ {e} : buckets'[d] = buckets[d]
             /\ lreq'.status = Cardinality({c \in Clients : Stale(buckets[e][c])})]_vars

\* in every run a bucket that is stale is removed from the bucket map later
StaleBucketsGoAway ==
    \A e \in EndpointTypes, c \in Clients :
       Stale(buckets[e][c]) ~> (buckets[e][c] = NoBucket)

\* C29: a bucket whose last check is more than max_age old is eventually
\* removed from the bucket map in every run of the service, and
\* cleanup_old_buckets removes exactly the buckets with
\* now - last_refill > max_age, returns their count and leaves every other
\* bucket as it was.
C29_StaleBucketsPurged == StaleBucketsGoAway /\ CleanupRemovesExactlyTheStale


\* ---- the breaker called by several threads at once -------------------------
\* Threads call CircuitBreaker.call whenever they are idle; self.lock is held
\* for the check at the start of call and inside _on_success and _on_failure,
\* never while func runs.
NextConcurrent ==
    /\ UNCHANGED <<cacheVars, otherVars>>
    /\ \/ \E t \in Threads : CallBegin(t)
       \/ \E t \in Threads, ok \in BOOLEAN : BreakerFuncReturn(t, ok)
       \/ \E t \in Threads : Return(t)
       \/ Tick /\ UNCHANGED resilVars

SpecConcurrent == Init /\ [][NextConcurrent]_vars

\* the breaker is HalfOpen and no outcome was recorded since it became so: the
\* call that made it HalfOpen is still inside func
ProbeRunning == state = "half_open" /\ probeSuccesses = 0

\* C31: once a call went through as the HalfOpen probe, no other call invokes
\* the wrapped function before the outcome of the probe has been recorded.
C31_OneProbe ==
    [][\A t \in Threads :
          (pc[t] = "idle" /\ pc'[t] = "cb_func") => ~ProbeRunning]_vars


\* ---- a RateLimiter with a configuration of its own -------------------------
\* RateLimiter(requests_per_minute, burst_size), as any caller may construct it
RateArgs == {0, 30, 60}
BurstArgs == {1, 2}

\* RateLimiter.__init__
NewRateLimiter(requests_per_minute, burst_size) ==
    /\ rate_limiter.status = "none"
    /\ rate_limiter' = [NoRateLimiter EXCEPT !.status = "ready",
                                             !.requests_per_minute = requests_per_minute,
                                             !.burst_size = burst_size]

\* RateLimiter.is_allowed: "'reset_time': current_time + (1 /
\* self.tokens_per_second)" divides by zero when requests_per_minute is 0, in
\* the grant branch and in the deny branch alike
InfoRaises(lim) == lim.requests_per_minute = 0

\* RateLimiter.is_allowed: what it returns as is_allowed; the bucket has been
\* refilled and charged when the rate_limit_info is built
IsAllowedReturns(bs, c, lim) ==
    IF InfoRaises(lim) THEN AllowOnError ELSE Grants(bs, c, lim)

\* RateLimiter.is_allowed(client_id)
RateLimiterIsAllowed(c) ==
    LET lim == [requests_per_minute |-> rate_limiter.requests_per_minute,
                burst_size |-> rate_limiter.burst_size]
        a == IsAllowedReturns(rate_limiter.buckets, c, lim)
    IN  /\ rate_limiter.status = "ready"
        /\ rate_limiter.ncalls < MaxLimiterCalls
        /\ rate_limiter' =
              [rate_limiter EXCEPT
                  !.buckets[c] = Checked(rate_limiter.buckets, c, lim),
                  !.granted[c] = IF a THEN Append(@, now) ELSE @,
                  !.ncalls = @ + 1]

NextRateLimiter ==
    \/ /\ \/ \E requests_per_minute \in RateArgs, burst_size \in BurstArgs :
               NewRateLimiter(requests_per_minute, burst_size)
          \/ \E c \in Clients : RateLimiterIsAllowed(c)
       /\ UNCHANGED <<now, resilVars, cacheVars, limiterVars, chunkerVars, loader, store,
                      searched, answered, sampled, deleted, processed_doc>>
    \/ /\ rate_limiter.status = "ready"
       /\ LimiterTick

SpecRateLimiter == Init /\ [][NextRateLimiter]_vars

\* the grants from the i-th to the j-th of a client are within what the bucket
\* holds and what the time between them refills, in sixtieths of a token
WithinRate(g, i, j) ==
    (j - i + 1) * TokenScale <=
        rate_limiter.burst_size * TokenScale
            + ((g[j] - g[i]) * rate_limiter.requests_per_minute * TokenScale) \div 60

\* C33: whatever the configuration with requests_per_minute >= 0 and
\* burst_size >= 1, the requests granted to a client in an interval of T
\* seconds are at most burst_size + T * requests_per_minute / 60.
C33_GrantsWithinRate ==
    \A c \in Clients :
       LET g == rate_limiter.granted[c]
       IN  \A i, j \in 1..Len(g) : i <= j => WithinRate(g, i, j)

\* the same for the limiters that refill
GrantsWithinPositiveRate == rate_limiter.requests_per_minute > 0 => C33_GrantsWithinRate


\* ---- deleting a document (SearchService.delete_document) -------------------
\* the 'document_id' field of the record of a chunk
DocumentOf(chunk_id) == IF chunk_id = "c1" THEN "d1" ELSE "d2"

\* what the cluster answers to the search request: the documents of the
\* records it holds, every record matching
Hits(docs) ==
    LET found == {DocumentOf(r.source.chunk_id) : r \in docs}
    IN  (IF "d1" \in found THEN <<"d1">> ELSE <<>>) \o (IF "d2" \in found THEN <<"d2">> ELSE <<>>)

\* client.delete_by_query with the term query on document_id
DeleteByQuery(docs, document_id) ==
    {r \in docs : DocumentOf(r.source.chunk_id) # document_id}

\* SearchService.delete_document: True when the cluster executed the request,
\* SearchServiceError when it raised (no index, cluster out of reach)
DeleteDocument(document_id, reachable) ==
    /\ store.ncalls < MaxDeleteCalls
    /\ \A t \in Threads : store.pc[t] = "idle"
    /\ IF store.exists /\ reachable
       THEN /\ store' = [store EXCEPT !.docs = DeleteByQuery(@, document_id), !.ncalls = @ + 1]
            /\ deleted' = deleted \cup {document_id}
       ELSE /\ store' = [store EXCEPT !.ncalls = @ + 1]
            /\ UNCHANGED deleted

\* One thread indexes and deletes, searches run against the cluster as it is.
NextDelete ==
    \/ /\ \/ /\ store.ncalls < MaxDeleteCalls
             /\ CallSearchService(1, "index_documents")
             /\ UNCHANGED deleted
          \/ IndicesExists(1) /\ UNCHANGED deleted
          \/ IndicesCreate(1) /\ UNCHANGED deleted
          \/ \E doc \in IndexDocs :
                /\ doc.embedding = "v1"
                /\ IndexDocuments(1, <<doc>>, {})
                /\ deleted' = deleted \ {DocumentOf(doc.chunk_id)}
          \/ \E document_id \in {"d1", "d2"}, reachable \in BOOLEAN :
                DeleteDocument(document_id, reachable)
       /\ UNCHANGED <<now, sampled, rate_limiter, resilVars, cacheVars, limiterVars, chunkerVars,
                      loader, searched, answered, processed_doc>>
    \/ /\ \E reachable \in BOOLEAN, mem \in MemorySamples :
             HybridSearch(BaseSearch,
                          IF store.exists /\ reachable
                          THEN [status |-> "ok", results |-> Hits(store.docs)]
                          ELSE [status |-> "error", results |-> <<>>],
                          mem)
       /\ UNCHANGED <<now, asideVars, resilVars, limiterVars, chunkerVars, loader, store,
                      answered, processed_doc>>
    \/ SearchTick

SpecDelete == Init /\ [][NextDelete]_vars

\* a hybrid_search call returned results in this step
SearchStep == searched'.n = searched.n + 1 /\ searched'.status = "ok"

\* C34: once delete_document(d) has returned True, no hybrid_search returns a
\* result of document d, unless a chunk of d has been indexed again since.
C34_DeletedNotReturned ==
    [][SearchStep =>
          \A i \in 1..Len(searched'.results) : searched'.results[i] \notin deleted]_vars


\* ---- get_or_set called by several threads at once ---------------------------
\* A thread at "factory" holds no lock: self._lock is taken inside get and
\* inside set, so another thread's get_or_set runs between the two.
NextRace ==
    \/ /\ UNCHANGED <<now, resilVars, lruHistory, otherVars>>
       /\ \/ \E t \in Threads, k \in Keys, ttl \in TtlArgs :
                nops < MaxRaceOps /\ GosBegin(t, k, ttl)
          \/ \E t \in Threads, v \in Values, mem \in MemorySamples : GosFactoryReturn(t, v, mem)
          \/ \E t \in Threads, ok \in BOOLEAN, v \in Values : GosFactoryRaise(t, ok, v)
    \/ CacheTick

SpecRace == Init /\ [][NextRace]_vars

\* the get_or_set of thread t stores what its factory returned and returns
StoresAndReturns(t) == GosEnd(t) /\ last'.path # "uncached"

\* C35: no lock is held while a factory runs, so two threads that call
\* get_or_set for the same missing key both run their factory; each returns what
\* its own factory returned, and after each set the cache holds the value of that
\* set: in the end the value of the later one.
C35_LaterSetWins ==
    [][\A t \in Threads :
          StoresAndReturns(t) =>
             /\ last'.ret = last'.val
             /\ Has(cache', gkey[t])
             /\ ItemOf(cache', gkey[t]).value = last'.val
             /\ \A u \in Threads \ {t} : gpc'[u] = gpc[u] /\ gkey'[u] = gkey[u]]_vars

\* Both threads missed key a and ran their factory at the same time, no time
\* passing: one has stored v1 and returned it, the other is still in its
\* factory and will store over it.
C35_Witness ==
    /\ nops = 2
    /\ now = RecoveryTimeout
    /\ \E t \in Threads : gpc[t] = "factory" /\ gkey[t] = "a"
    /\ last.op = "get_or_set"
    /\ last.key = "a"
    /\ last.calls = 1
    /\ last.ret = "v1"
    /\ Live(cache, "a")
    /\ ItemOf(cache, "a").value = "v1"


\* ---- the circuit_breaker decorator ------------------------------------------
\* wrapper(*args, **kwargs): "circuit_breaker = CircuitBreaker(
\* CircuitBreakerConfig(failure_threshold=..., recovery_timeout=...))" and then
\* circuit_breaker.call(func, ...).  The breaker is a local of the call: state,
\* failure_count, success_count and last_failure_time are here the fields of
\* the breaker the last call of the wrapper made.  A new breaker is Closed and
\* admits the call.
DecoratedBegin(t) ==
    /\ StartOp(t, "decorated")
    /\ state' = "closed"
    /\ failure_count' = 0
    /\ success_count' = 0
    /\ last_failure_time' = 0
    /\ pc' = [pc EXCEPT ![t] = "cb_func"]
    /\ inv' = [inv EXCEPT ![t] = 1]
    /\ UNCHANGED <<result, streak, probeSuccesses>>

\* The decorated function is called by one caller at a time.
NextDecorated ==
    /\ UNCHANGED <<cacheVars, otherVars>>
    /\ \/ \E t \in Threads : AllIdle /\ DecoratedBegin(t)
       \/ \E t \in Threads, ok \in BOOLEAN : BreakerFuncReturn(t, ok)
       \/ \E t \in Threads : Return(t)
       \/ Tick /\ UNCHANGED resilVars

SpecDecorated == Init /\ [][NextDecorated]_vars

\* C37: after failure_threshold consecutive failing calls of a function
\* decorated with circuit_breaker, a further call made before recovery_timeout
\* has elapsed since the last failure fails fast: it raises the open-circuit
\* error and does not run the function.
C37_DecoratorProtects ==
    [][\A t \in Threads :
          (Started(t, "decorated") /\ streak >= FailureThreshold
              /\ now - last_failure_time < RecoveryTimeout) =>
             /\ pc'[t] = "done"
             /\ result'[t] = OpenError
             /\ inv'[t] = 0]_vars

=============================================================================
